---- MODULE Spec2Model ----
(***************************************************************************)
(* Slackelo: per-channel Elo ratings over a SQLite store.                  *)
(*                                                                         *)
(* The tables of the store are the state.  Every handler of                *)
(* src/slackelo.py is a function from a store to a store and a result; the *)
(* rating arithmetic of src/elo.py is computed in integers.                *)
(***************************************************************************)
EXTENDS Integers, Sequences, FiniteSets, TLC

(***************************************************************************)
(* Bounds of the model and the inputs the handlers are called with.        *)
(***************************************************************************)
MaxGames == 2

Users == {"u1", "u2", "u3"}
Channels == {"c1"}
NULL == "NULL"
KFactorArgs == {0 - 1, 0, 16}

(***************************************************************************)
(* src/elo.py.  Python evaluates 1 / (1 + 10 ** (d / 400)) in binary64 and *)
(* rounds with round(), which rounds halves to even.  Here 10 ** (r / 400) *)
(* for r in 0..399 is tabulated to six decimals and the quotient is        *)
(* rounded exactly; the results agree with the float code for every        *)
(* k_factor in 1..97 and every rating difference in -20000..20000.         *)
(***************************************************************************)
Scale == 1000000

Pow10Table ==
  << 1000000, 1005773, 1011579, 1017419, 1023293, 1029201, 1035142, 1041118,
     1047129, 1053174, 1059254, 1065369, 1071519, 1077705, 1083927, 1090184,
     1096478, 1102808, 1109175, 1115578, 1122018, 1128496, 1135011, 1141563,
     1148154, 1154782, 1161449, 1168154, 1174898, 1181680, 1188502, 1195364,
     1202264, 1209205, 1216186, 1223207, 1230269, 1237371, 1244515, 1251699,
     1258925, 1266193, 1273503, 1280855, 1288250, 1295687, 1303167, 1310690,
     1318257, 1325867, 1333521, 1341220, 1348963, 1356751, 1364583, 1372461,
     1380384, 1388353, 1396368, 1404430, 1412538, 1420692, 1428894, 1437143,
     1445440, 1453784, 1462177, 1470618, 1479108, 1487647, 1496236, 1504874,
     1513561, 1522299, 1531087, 1539927, 1548817, 1557758, 1566751, 1575796,
     1584893, 1594043, 1603245, 1612501, 1621810, 1631173, 1640590, 1650061,
     1659587, 1669168, 1678804, 1688496, 1698244, 1708048, 1717908, 1727826,
     1737801, 1747833, 1757924, 1768072, 1778279, 1788546, 1798871, 1809256,
     1819701, 1830206, 1840772, 1851399, 1862087, 1872837, 1883649, 1894524,
     1905461, 1916461, 1927525, 1938653, 1949845, 1961101, 1972423, 1983810,
     1995262, 2006781, 2018366, 2030019, 2041738, 2053525, 2065380, 2077304,
     2089296, 2101358, 2113489, 2125690, 2137962, 2150305, 2162719, 2175204,
     2187762, 2200392, 2213095, 2225871, 2238721, 2251645, 2264644, 2277718,
     2290868, 2304093, 2317395, 2330773, 2344229, 2357762, 2371374, 2385064,
     2398833, 2412682, 2426610, 2440619, 2454709, 2468880, 2483133, 2497468,
     2511886, 2526388, 2540973, 2555642, 2570396, 2585235, 2600160, 2615170,
     2630268, 2645453, 2660725, 2676086, 2691535, 2707073, 2722701, 2738420,
     2754229, 2770129, 2786121, 2802206, 2818383, 2834654, 2851018, 2867477,
     2884032, 2900681, 2917427, 2934270, 2951209, 2968247, 2985383, 3002617,
     3019952, 3037386, 3054921, 3072557, 3090295, 3108136, 3126079, 3144126,
     3162278, 3180534, 3198895, 3217363, 3235937, 3254618, 3273407, 3292305,
     3311311, 3330428, 3349654, 3368992, 3388442, 3408003, 3427678, 3447466,
     3467369, 3487386, 3507519, 3527768, 3548134, 3568617, 3589219, 3609940,
     3630781, 3651741, 3672823, 3694026, 3715352, 3736801, 3758374, 3780071,
     3801894, 3823843, 3845918, 3868121, 3890451, 3912911, 3935501, 3958221,
     3981072, 4004055, 4027170, 4050419, 4073803, 4097321, 4120975, 4144766,
     4168694, 4192760, 4216965, 4241310, 4265795, 4290422, 4315191, 4340103,
     4365158, 4390359, 4415704, 4441197, 4466836, 4492623, 4518559, 4544645,
     4570882, 4597270, 4623810, 4650504, 4677351, 4704354, 4731513, 4758828,
     4786301, 4813933, 4841724, 4869675, 4897788, 4926063, 4954502, 4983105,
     5011872, 5040806, 5069907, 5099176, 5128614, 5158222, 5188000, 5217951,
     5248075, 5278372, 5308844, 5339493, 5370318, 5401321, 5432503, 5463865,
     5495409, 5527134, 5559043, 5591135, 5623413, 5655878, 5688529, 5721370,
     5754399, 5787620, 5821032, 5854637, 5888437, 5922431, 5956621, 5991009,
     6025596, 6060382, 6095369, 6130558, 6165950, 6201546, 6237348, 6273357,
     6309573, 6345999, 6382635, 6419482, 6456542, 6493816, 6531306, 6569011,
     6606934, 6645077, 6683439, 6722023, 6760830, 6799860, 6839116, 6878599,
     6918310, 6958250, 6998420, 7038822, 7079458, 7120328, 7161434, 7202778,
     7244360, 7286182, 7328245, 7370552, 7413102, 7455899, 7498942, 7542234,
     7585776, 7629569, 7673615, 7717915, 7762471, 7807284, 7852356, 7897688,
     7943282, 7989139, 8035261, 8081649, 8128305, 8175230, 8222426, 8269895,
     8317638, 8365656, 8413951, 8462526, 8511380, 8560517, 8609938, 8659643,
     8709636, 8759917, 8810489, 8861352, 8912509, 8963962, 9015711, 9067760,
     9120108, 9172759, 9225714, 9278975, 9332543, 9386420, 9440609, 9495110,
     9549926, 9605058, 9660509, 9716280, 9772372, 9828789, 9885531, 9942601 >>

Pow10(n) ==
  CASE n <= 0 -> 1
    [] n = 1 -> 10
    [] n = 2 -> 100
    [] n = 3 -> 1000
    [] n = 4 -> 10000
    [] n = 5 -> 100000
    [] n = 6 -> 1000000
    [] OTHER -> 10000000

\* 10 ** (d / 400) as a fraction num / den of two integers below 10^7.
PowFrac(d) ==
  LET q == d \div 400
      r == d % 400
  IN  IF q >= 0
        THEN [num |-> Pow10Table[r + 1], den |-> Scale \div Pow10(q)]
        ELSE [num |-> Pow10Table[r + 1] \div Pow10(0 - q), den |-> Scale]

\* 1 / (1 + 10 ** ((other - self) / 400)), the logistic expected score.
Expected(self, other) ==
  LET x == PowFrac(other - self)
  IN  [num |-> x.den, den |-> x.num + x.den]

\* The rating differences at which binary64 makes the expected score exactly
\* 0 or 1, so that k * (0.5 - expected) is an exact half for odd k.
SaturatesAbove == 6623
SaturatesBelow == 6382

ExactScore(d) == d = 0 \/ d >= SaturatesAbove \/ d <= 0 - SaturatesBelow

\* round(num / den) for num >= 0: halves go to the even neighbour when the
\* quotient is exact, and towards zero when the half comes from the table's
\* truncation of a value that lies strictly inside.
RoundNat(num, den, exact) ==
  LET fl == num \div den
      rem == num % den
  IN  IF rem < den - rem THEN fl
      ELSE IF rem > den - rem THEN fl + 1
      ELSE IF exact /\ fl % 2 = 1 THEN fl + 1
      ELSE fl

round(num, den, exact) ==
  IF num >= 0 THEN RoundNat(num, den, exact)
              ELSE 0 - RoundNat(0 - num, den, exact)

\* A win that costs the loser nothing.
calculate_elo_win_keeping_loser(winner_elo, loser_elo, k_factor) ==
  LET expected_win == Expected(winner_elo, loser_elo)
  IN  <<winner_elo + round(k_factor * (expected_win.den - expected_win.num),
                           expected_win.den, ExactScore(loser_elo - winner_elo)),
        loser_elo>>

calculate_elo_win(winner_elo, loser_elo, k_factor) ==
  LET expected_win == Expected(winner_elo, loser_elo)
      expected_lose == Expected(loser_elo, winner_elo)
      new_winner_elo ==
        winner_elo + round(k_factor * (expected_win.den - expected_win.num),
                           expected_win.den, ExactScore(loser_elo - winner_elo))
      new_loser_elo ==
        loser_elo + round(0 - k_factor * expected_lose.num,
                          expected_lose.den, ExactScore(winner_elo - loser_elo))
  IN  <<new_winner_elo, new_loser_elo>>

calculate_elo_draw(player1_elo, player2_elo, k_factor) ==
  LET expected_p1_score == Expected(player1_elo, player2_elo)
      expected_p2_score == Expected(player2_elo, player1_elo)
      new_player1_elo ==
        player1_elo
          + round(k_factor * (expected_p1_score.den - 2 * expected_p1_score.num),
                  2 * expected_p1_score.den, ExactScore(player2_elo - player1_elo))
      new_player2_elo ==
        player2_elo
          + round(k_factor * (expected_p2_score.den - 2 * expected_p2_score.num),
                  2 * expected_p2_score.den, ExactScore(player1_elo - player2_elo))
  IN  <<new_player1_elo, new_player2_elo>>

RECURSIVE SumSeq(_)
SumSeq(s) == IF s = <<>> THEN 0 ELSE Head(s) + SumSeq(Tail(s))

\* What one pass (i, j) of the double loop adds to elo_changes[i] and
\* elo_changes[j], times (len(player_elos) - 1).
PairChange(player_elos, player_positions, k_factor, i, j) ==
  IF i = j THEN <<0, 0>>
  ELSE IF player_positions[i] = player_positions[j]
    THEN LET d == calculate_elo_draw(player_elos[i], player_elos[j], k_factor)
         IN  <<d[1] - player_elos[i], d[2] - player_elos[j]>>
  ELSE IF player_positions[i] < player_positions[j]
    THEN LET w == calculate_elo_win(player_elos[i], player_elos[j], k_factor)
         IN  <<w[1] - player_elos[i], w[2] - player_elos[j]>>
  ELSE <<0, 0>>

\* The changes of the passes in which the player comes first only.
elo_changes_as_first_player(player_elos, player_positions, k_factor, p) ==
  SumSeq([j \in 1..Len(player_elos) |->
            PairChange(player_elos, player_positions, k_factor, p, j)[1]])

\* elo_changes[p] after the double loop, times (len(player_elos) - 1): what
\* the passes (p, j) add to their first player and the passes (j, p) to
\* their second.
elo_changes(player_elos, player_positions, k_factor, p) ==
  SumSeq([j \in 1..Len(player_elos) |->
            PairChange(player_elos, player_positions, k_factor, p, j)[1]
              + PairChange(player_elos, player_positions, k_factor, j, p)[2]])

calculate_group_elo_with_draws(player_elos, player_positions, k_factor) ==
  [i \in 1..Len(player_elos) |->
     player_elos[i]
       + round(elo_changes(player_elos, player_positions, k_factor, i),
               Len(player_elos) - 1, TRUE)]

(***************************************************************************)
(* The store: one variable per table, a table being the set of its rows,   *)
(* and games_seq, the largest id the games table has handed out.           *)
(* last is a history variable: the handler that ran last and whether it    *)
(* raised.  calls holds the frame of the call each thread is in the middle *)
(* of.  version is the table of the same name, the ledger of the schema    *)
(* versions applied, and migrations_dir the files of the migrations        *)
(* directory.                                                              *)
(***************************************************************************)
VARIABLES players, channels, channel_players, games, player_games, games_seq,
          last, calls, version, migrations_dir

vars ==
  <<players, channels, channel_players, games, player_games, games_seq, last, calls,
    version, migrations_dir>>

DEFAULT_K_FACTOR == 32
NoResult == <<>>
INITIAL_RATING == 1000

Rankings ==
  { <<<<"u1">>, <<"u2">>>>,
    <<<<"u3">>, <<"u1", "u2">>>>,
    <<>>,
    <<<<"u1">>>>,
    <<<<"u1">>, <<"u2", "u1">>>> }

\* The team_id a create_game or simulate_game call for a channel names.
TeamOf(channel_id) == "t1"
Gamblers == {"u3"}
Spectators == {"u3"}
TunedChannels == {"c1"}

DB ==
  [players |-> players, channels |-> channels, channel_players |-> channel_players,
   games |-> games, player_games |-> player_games, games_seq |-> games_seq]

EmptyDB ==
  [players |-> {}, channels |-> {}, channel_players |-> {}, games |-> {},
   player_games |-> {}, games_seq |-> 0]

SetDB(d) ==
  /\ players' = d.players
  /\ channels' = d.channels
  /\ channel_players' = d.channel_players
  /\ games' = d.games
  /\ player_games' = d.player_games
  /\ games_seq' = d.games_seq
  /\ UNCHANGED <<version, migrations_dir>>

RECURSIVE Flatten(_)
Flatten(ranked_player_ids) ==
  IF ranked_player_ids = <<>> THEN <<>>
  ELSE Head(ranked_player_ids) \o Flatten(Tail(ranked_player_ids))

SeqToSet(s) == {s[i] : i \in 1..Len(s)}

RECURSIVE SetToSeq(_)
SetToSeq(S) ==
  IF S = {} THEN <<>>
  ELSE LET x == CHOOSE y \in S : TRUE IN <<x>> \o SetToSeq(S \ {x})

(***************************************************************************)
(* get_or_create_player, get_or_create_channel, get_or_create_channel_player*)
(***************************************************************************)
PlayerRows(d, user_id) == {p \in d.players : p = user_id}

get_or_create_player(d, user_id) ==
  IF PlayerRows(d, user_id) = {}
    THEN [d EXCEPT !.players = @ \cup {user_id}]
    ELSE d

ChannelRows(d, channel_id) == {ch \in d.channels : ch.channel_id = channel_id}

Channel(d, channel_id) == CHOOSE ch \in ChannelRows(d, channel_id) : TRUE

get_or_create_channel(d, channel_id, team_id) ==
  IF ChannelRows(d, channel_id) = {}
    THEN [d EXCEPT !.channels = @ \cup
            {[channel_id |-> channel_id, k_factor |-> DEFAULT_K_FACTOR,
              team_id |-> team_id]}]
  ELSE IF team_id # NULL /\ Channel(d, channel_id).team_id = NULL
    THEN [d EXCEPT !.channels =
            {IF ch.channel_id = channel_id /\ ch.team_id = NULL
               THEN [ch EXCEPT !.team_id = team_id] ELSE ch : ch \in @}]
  ELSE d

ChannelPlayerRows(d, user_id, channel_id) ==
  {cp \in d.channel_players : cp.user_id = user_id /\ cp.channel_id = channel_id}

ChannelPlayer(d, user_id, channel_id) ==
  CHOOSE cp \in ChannelPlayerRows(d, user_id, channel_id) : TRUE

\* A call that inserts the default row without looking for one.
create_channel_player(d, user_id, channel_id) ==
  [get_or_create_channel(get_or_create_player(d, user_id), channel_id, NULL)
     EXCEPT !.channel_players = @ \cup
       {[user_id |-> user_id, channel_id |-> channel_id,
         rating |-> INITIAL_RATING, gambling |-> 0]}]

get_or_create_channel_player(d, user_id, channel_id) ==
  LET d1 == get_or_create_player(d, user_id)
      d2 == get_or_create_channel(d1, channel_id, NULL)
  IN  IF ChannelPlayerRows(d2, user_id, channel_id) = {}
        THEN [d2 EXCEPT !.channel_players = @ \cup
                {[user_id |-> user_id, channel_id |-> channel_id,
                  rating |-> INITIAL_RATING, gambling |-> 0]}]
        ELSE d2

\* UPDATE channel_players SET ... WHERE user_id = ? AND channel_id = ?
UpdateChannelPlayers(d, user_id, channel_id, set) ==
  [d EXCEPT !.channel_players =
     {IF cp.user_id = user_id /\ cp.channel_id = channel_id
        THEN [column \in DOMAIN cp |->
                IF column \in DOMAIN set THEN set[column] ELSE cp[column]]
        ELSE cp :
        cp \in @}]

\* A call that sets the flag whatever it was.
set_player_gambling(d, user_id, channel_id) ==
  [db |-> UpdateChannelPlayers(get_or_create_channel_player(d, user_id, channel_id),
                               user_id, channel_id, [gambling |-> 1]),
   raised |-> FALSE, ret |-> TRUE]

toggle_player_gambling(d, user_id, channel_id) ==
  LET d1 == get_or_create_channel_player(d, user_id, channel_id)
      channel_player == ChannelPlayer(d1, user_id, channel_id)
      current_status == channel_player.gambling # 0
      new_status == ~current_status
      set == [gambling |-> IF new_status THEN 1 ELSE 0]
  IN  [db |-> UpdateChannelPlayers(d1, user_id, channel_id, set),
       raised |-> FALSE, ret |-> new_status]

is_player_gambling(d, user_id, channel_id) ==
  LET d1 == get_or_create_channel_player(d, user_id, channel_id)
  IN  [db |-> d1, raised |-> FALSE,
       ret |-> ChannelPlayer(d1, user_id, channel_id).gambling # 0]

\* Every statement that writes channels.k_factor writes an integer, so the
\* column is never NULL and DEFAULT_K_FACTOR is never substituted on a read.
get_channel_k_factor(d, channel_id) ==
  LET d1 == get_or_create_channel(d, channel_id, NULL)
      channel == Channel(d1, channel_id)
  IN  [db |-> d1, raised |-> FALSE,
       ret |-> channel.k_factor]

\* A call that writes the k-factor without looking at it.
set_channel_k_factor_unchecked(d, channel_id, k_factor) ==
  [db |-> [get_or_create_channel(d, channel_id, NULL) EXCEPT !.channels =
             {IF ch.channel_id = channel_id
                THEN [ch EXCEPT !.k_factor = k_factor] ELSE ch : ch \in @}],
   raised |-> FALSE, ret |-> TRUE]

set_channel_k_factor(d, channel_id, k_factor) ==
  IF k_factor <= 0
    THEN [db |-> d, raised |-> TRUE, ret |-> NoResult]
    ELSE LET d1 == get_or_create_channel(d, channel_id, NULL)
         IN  [db |-> [d1 EXCEPT !.channels =
                        {IF ch.channel_id = channel_id
                           THEN [ch EXCEPT !.k_factor = k_factor] ELSE ch : ch \in @}],
              raised |-> FALSE, ret |-> TRUE]

\* A read of the rating that creates no row.
get_player_channel_rating_read_only(d, user_id, channel_id) ==
  [db |-> d, raised |-> FALSE,
   ret |-> IF ChannelPlayerRows(d, user_id, channel_id) = {} THEN INITIAL_RATING
           ELSE ChannelPlayer(d, user_id, channel_id).rating]

get_player_channel_rating(d, user_id, channel_id) ==
  LET d1 == get_or_create_channel_player(d, user_id, channel_id)
  IN  [db |-> d1, raised |-> FALSE,
       ret |-> ChannelPlayer(d1, user_id, channel_id).rating]

(***************************************************************************)
(* create_game, one step per statement that reaches the store.  A frame    *)
(* holds the locals of a call in progress and the place it has reached.    *)
(***************************************************************************)
\* A validation that does not look for a player named twice.
DuplicateCheckSkipped(flat_player_ids) == FALSE

\* if len(flat_player_ids) != len(set(flat_player_ids))
DuplicatePlayers(flat_player_ids) ==
  Len(flat_player_ids) # Cardinality(SeqToSet(flat_player_ids))

\* A numbering that moves on by one after every rank group.
RECURSIVE PositionsCountingGroups(_, _)
PositionsCountingGroups(ranked_player_ids, position) ==
  IF ranked_player_ids = <<>> THEN <<>>
  ELSE PositionsCountingGroups(Tail(ranked_player_ids), position + 1)
         @@ [player_id \in SeqToSet(Head(ranked_player_ids)) |-> position]

RECURSIVE PositionsFrom(_, _)
PositionsFrom(ranked_player_ids, position) ==
  IF ranked_player_ids = <<>> THEN <<>>
  ELSE LET rank_group == Head(ranked_player_ids)
       IN  PositionsFrom(Tail(ranked_player_ids), position + Len(rank_group))
             @@ [player_id \in SeqToSet(rank_group) |-> position]

player_positions(ranked_player_ids) == PositionsFrom(ranked_player_ids, 1)

\* cursor.lastrowid of INSERT INTO games: a contest's identity is an integer,
\* monotonic by insertion, so an id is never handed out twice.
lastrowid(d) == d.games_seq + 1

\* pre and at are history fields: the store when the call began, and the
\* place the call had reached when it was interrupted.
CreateGameFrame(d, channel_id, ranked_player_ids, team_id) ==
  [op |-> "create_game", pc |-> "validate", channel_id |-> channel_id,
   ranked_player_ids |-> ranked_player_ids, team_id |-> team_id,
   game_id |-> 0, timestamp |-> 0, channel_players |-> <<>>,
   rating_changes |-> <<>>, i |-> 1, ret |-> 0, pre |-> d, at |-> ""]

old_ratings(f) == [i \in 1..Len(f.channel_players) |-> f.channel_players[i].rating]

\* A rating after the game that leaves the multiplier out.
new_rating_not_multiplied(f) == old_ratings(f)[f.i] + f.rating_changes[f.i]

new_rating(f) ==
  LET player == f.channel_players[f.i]
      is_gambling == player.gambling # 0
      multiplier == IF is_gambling THEN 2 ELSE 1
      adjusted_change == f.rating_changes[f.i] * multiplier
  IN  old_ratings(f)[f.i] + adjusted_change

\* An update of the rating that leaves the gambling flag as it is.
RatingUpdateKeepingFlag(f) == [rating |-> new_rating(f)]

\* The columns the UPDATE of channel_players sets for player f.i.
RatingUpdate(f) ==
  IF f.channel_players[f.i].gambling # 0
    THEN [rating |-> new_rating(f), gambling |-> 0]
    ELSE [rating |-> new_rating(f)]

\* A row that names the first player of the game whoever it is written for.
player_game_of_first_player(f, positions) ==
  [user_id |-> f.channel_players[1].user_id, game_id |-> f.game_id,
   rating_before |-> old_ratings(f)[f.i],
   rating_after |-> new_rating(f),
   position |-> positions[f.channel_players[f.i].user_id],
   gambled |-> IF f.channel_players[f.i].gambling # 0 THEN 1 ELSE 0]

\* The row of INSERT INTO player_games for player i of the game.
player_game_row(f, positions) ==
  LET player == f.channel_players[f.i]
  IN  [user_id |-> player.user_id, game_id |-> f.game_id,
       rating_before |-> old_ratings(f)[f.i],
       rating_after |-> new_rating(f),
       position |-> positions[player.user_id],
       gambled |-> IF player.gambling # 0 THEN 1 ELSE 0]

create_game_step(d, f, time) ==
  LET flat_player_ids == Flatten(f.ranked_player_ids)
      positions == player_positions(f.ranked_player_ids)
  IN
  CASE f.pc = "validate" ->
         IF Len(flat_player_ids) < 2 \/ DuplicatePlayers(flat_player_ids)
           THEN [db |-> d, frame |-> [f EXCEPT !.pc = "raised"]]
           ELSE [db |-> d, frame |-> [f EXCEPT !.pc = "get_or_create_channel"]]
    [] f.pc = "get_or_create_channel" ->
         [db |-> get_or_create_channel(d, f.channel_id, f.team_id),
          frame |-> [f EXCEPT !.pc = "insert_game"]]
    [] f.pc = "insert_game" ->
         [db |-> [d EXCEPT !.games = @ \cup
                    {[id |-> lastrowid(d), channel_id |-> f.channel_id,
                      timestamp |-> time]},
                           !.games_seq = lastrowid(d)],
          frame |-> [f EXCEPT !.pc = "get_channel_players", !.game_id = lastrowid(d),
                              !.timestamp = time]]
    [] f.pc = "get_channel_players" ->
         LET d1 == get_or_create_channel_player(d, flat_player_ids[f.i], f.channel_id)
             channel_player == ChannelPlayer(d1, flat_player_ids[f.i], f.channel_id)
         IN  [db |-> d1,
              frame |-> [f EXCEPT
                !.channel_players = Append(@, channel_player),
                !.i = IF f.i = Len(flat_player_ids) THEN 1 ELSE f.i + 1,
                !.pc = IF f.i = Len(flat_player_ids) THEN "calculate" ELSE @]]
    [] f.pc = "calculate" ->
         LET k == get_channel_k_factor(d, f.channel_id)
         IN  [db |-> k.db,
              frame |-> [f EXCEPT
                !.rating_changes =
                   calculate_group_elo_with_draws(
                     old_ratings(f),
                     [i \in 1..Len(f.channel_players) |->
                        positions[f.channel_players[i].user_id]],
                     k.ret),
                !.pc = "insert_player_game"]]
    [] f.pc = "insert_player_game" ->
         LET player == f.channel_players[f.i]
         IN  [db |-> [d EXCEPT !.player_games = @ \cup {player_game_row(f, positions)}],
              frame |-> [f EXCEPT !.pc = "update_channel_player"]]
    [] f.pc = "update_channel_player" ->
         LET player == f.channel_players[f.i]
             set == RatingUpdate(f)
         IN  [db |-> UpdateChannelPlayers(d, player.user_id, f.channel_id, set),
              frame |-> IF f.i = Len(f.channel_players)
                          THEN [f EXCEPT !.pc = "done", !.ret = f.game_id]
                          ELSE [f EXCEPT !.pc = "insert_player_game", !.i = f.i + 1]]

(***************************************************************************)
(* undo_last_game, one step per statement that reaches the store.  The     *)
(* games of a channel that share the latest timestamp are not ordered by   *)
(* ORDER BY g.timestamp DESC; LIMIT 1 returns one of them, last_game.      *)
(***************************************************************************)
\* The games of the channel with the earliest timestamp.
FirstGames(d, channel_id) ==
  {g \in d.games :
     /\ g.channel_id = channel_id
     /\ \A h \in d.games : h.channel_id = channel_id => g.timestamp <= h.timestamp}

LastGames(d, channel_id) ==
  {g \in d.games : /\ g.channel_id = channel_id
                   /\ \A h \in d.games :
                        h.channel_id = channel_id => h.timestamp <= g.timestamp}

\* The result of the query when the channel has no game.
NoGame == [id |-> 0, channel_id |-> NULL, timestamp |-> 0]

\* An undo that goes on with an empty result.
EmptyResultAccepted(d, channel_id) == FALSE

\* if not last_game
NotLastGame(d, channel_id) == LastGames(d, channel_id) = {}

UndoLastGameFrame(d, channel_id) ==
  [op |-> "undo_last_game", pc |-> "select_last_game", channel_id |-> channel_id,
   game_id |-> 0, game_timestamp |-> 0, player_games |-> <<>>, i |-> 1, ret |-> 0,
   pre |-> d, at |-> ""]

\* An undo that gives the gambling flag back with the rating.
RatingAndFlagRestore(player_game) ==
  [rating |-> player_game.rating_before, gambling |-> player_game.gambled]

\* UPDATE channel_players SET rating = ? of undo_last_game.
RatingRestore(player_game) == [rating |-> player_game.rating_before]

undo_last_game_step(d, f, last_game) ==
  CASE f.pc = "select_last_game" ->
         IF NotLastGame(d, f.channel_id)
           THEN [db |-> d, frame |-> [f EXCEPT !.pc = "raised"]]
           ELSE [db |-> d,
                 frame |-> [f EXCEPT !.pc = "select_player_games",
                                     !.game_id = last_game.id,
                                     !.game_timestamp = last_game.timestamp]]
    [] f.pc = "select_player_games" ->
         LET rows == SetToSeq({pg \in d.player_games : pg.game_id = f.game_id})
         IN  [db |-> d,
              frame |-> [f EXCEPT !.player_games = rows,
                                  !.pc = IF rows = <<>> THEN "delete_game"
                                         ELSE "update_channel_player"]]
    [] f.pc = "update_channel_player" ->
         LET player_game == f.player_games[f.i]
             set == RatingRestore(player_game)
         IN  [db |-> UpdateChannelPlayers(d, player_game.user_id, f.channel_id, set),
              frame |-> IF f.i = Len(f.player_games)
                          THEN [f EXCEPT !.pc = "delete_game"]
                          ELSE [f EXCEPT !.i = f.i + 1]]
    [] f.pc = "delete_game" ->
         [db |-> [d EXCEPT !.games = {g \in @ : g.id # f.game_id}],
          frame |-> [f EXCEPT !.pc = "delete_player_games"]]
    [] f.pc = "delete_player_games" ->
         [db |-> [d EXCEPT !.player_games = {pg \in @ : pg.game_id # f.game_id}],
          frame |-> [f EXCEPT !.pc = "done", !.ret = f.game_timestamp]]

\* A call run from its first statement to its return or raise, nothing
\* else touching the store meanwhile.
Finished(f) == f.pc \in {"idle", "done", "raised", "crashed"}

RECURSIVE RunCreateGame(_, _, _)
RunCreateGame(d, f, time) ==
  IF Finished(f) THEN [db |-> d, raised |-> f.pc = "raised", ret |-> f.ret]
  ELSE LET s == create_game_step(d, f, time) IN RunCreateGame(s.db, s.frame, time)

RECURSIVE RunUndoLastGame(_, _, _)
RunUndoLastGame(d, f, last_game) ==
  IF Finished(f) THEN [db |-> d, raised |-> f.pc = "raised", ret |-> f.ret]
  ELSE LET s == undo_last_game_step(d, f, last_game)
       IN  RunUndoLastGame(s.db, s.frame, last_game)

create_game(d, channel_id, ranked_player_ids, team_id, time) ==
  RunCreateGame(d, CreateGameFrame(d, channel_id, ranked_player_ids, team_id), time)

undo_last_game(d, channel_id, last_game) ==
  RunUndoLastGame(d, UndoLastGameFrame(d, channel_id), last_game)

(***************************************************************************)
(* simulate_game and reset_channel.                                        *)
(***************************************************************************)
\* A reading of the ratings that flips the gambling flag of each player read.
RECURSIVE GetRatingsTogglingGambling(_, _, _)
GetRatingsTogglingGambling(d, player_ids, channel_id) ==
  IF player_ids = <<>> THEN d
  ELSE GetRatingsTogglingGambling(
         toggle_player_gambling(d, Head(player_ids), channel_id).db,
         Tail(player_ids), channel_id)

RECURSIVE GetRatings(_, _, _)
GetRatings(d, player_ids, channel_id) ==
  IF player_ids = <<>> THEN d
  ELSE GetRatings(get_player_channel_rating(d, Head(player_ids), channel_id).db,
                  Tail(player_ids), channel_id)

simulate_game(d, channel_id, ranked_player_ids, team_id) ==
  LET flat_player_ids == Flatten(ranked_player_ids)
  IN  IF Len(flat_player_ids) < 2 \/ DuplicatePlayers(flat_player_ids)
        THEN [db |-> d, raised |-> TRUE, ret |-> NoResult]
        ELSE
          LET d1 == get_or_create_channel(d, channel_id, team_id)
              positions == player_positions(ranked_player_ids)
              d2 == GetRatings(d1, flat_player_ids, channel_id)
              pre_game_ratings ==
                [player_id \in SeqToSet(flat_player_ids) |->
                   ChannelPlayer(d2, player_id, channel_id).rating]
              k == get_channel_k_factor(d2, channel_id)
              current_ratings ==
                [i \in 1..Len(flat_player_ids) |-> pre_game_ratings[flat_player_ids[i]]]
              positions_list ==
                [i \in 1..Len(flat_player_ids) |-> positions[flat_player_ids[i]]]
              rating_changes ==
                calculate_group_elo_with_draws(current_ratings, positions_list, k.ret)
              Index(player_id) ==
                CHOOSE i \in 1..Len(flat_player_ids) : flat_player_ids[i] = player_id
              post_game_ratings ==
                [player_id \in SeqToSet(flat_player_ids) |->
                   LET player_gambling ==
                         is_player_gambling(k.db, player_id, channel_id).ret
                       multiplier == IF player_gambling THEN 2 ELSE 1
                   IN  current_ratings[Index(player_id)]
                         + rating_changes[Index(player_id)] * multiplier]
          IN  [db |-> k.db, raised |-> FALSE,
               ret |-> [before |-> pre_game_ratings, after |-> post_game_ratings,
                        positions |-> positions]]

\* A reset that deletes the channel_players rows of every channel.
reset_channel_and_members(d, channel_id) ==
  LET channel_games == {g \in d.games : g.channel_id = channel_id}
  IN  [db |-> [d EXCEPT
         !.player_games = {pg \in @ : pg.game_id \notin {g.id : g \in channel_games}},
         !.games = {g \in @ : g.channel_id # channel_id},
         !.channel_players = {}],
       raised |-> FALSE, ret |-> Cardinality(channel_games)]

\* A reset that leaves the channel_players rows in place.
reset_channel_games(d, channel_id) ==
  LET channel_games == {g \in d.games : g.channel_id = channel_id}
  IN  [db |-> [d EXCEPT
         !.player_games = {pg \in @ : pg.game_id \notin {g.id : g \in channel_games}},
         !.games = {g \in @ : g.channel_id # channel_id}],
       raised |-> FALSE, ret |-> Cardinality(channel_games)]

reset_channel(d, channel_id) ==
  LET channel_games == {g \in d.games : g.channel_id = channel_id}
      game_count == Cardinality(channel_games)
  IN  [db |-> [d EXCEPT
         !.player_games = {pg \in @ : pg.game_id \notin {g.id : g \in channel_games}},
         !.games = {g \in @ : g.channel_id # channel_id},
         !.channel_players = {cp \in @ : cp.channel_id # channel_id}],
       raised |-> FALSE, ret |-> game_count]

(***************************************************************************)
(* The read-only queries.  A result is the set of its rows.                *)
(***************************************************************************)
\* The rows of channel_players JOIN players LEFT JOIN player_games LEFT JOIN
\* games: a row without a partner on the right of a LEFT JOIN is kept once,
\* with NULL for the partner.  pg and g are the set of the partner row, empty
\* for NULL.
LeaderboardJoin(d) ==
  LET WithGames(cp, p, pg) ==
        LET gs == {g \in d.games : \E x \in pg : g.id = x.game_id}
        IN  IF gs = {} THEN {[cp |-> cp, p |-> p, pg |-> pg, g |-> {}]}
            ELSE {[cp |-> cp, p |-> p, pg |-> pg, g |-> {g}] : g \in gs}
      WithPlayerGames(cp, p) ==
        LET pgs == {pg \in d.player_games : pg.user_id = p}
        IN  IF pgs = {} THEN WithGames(cp, p, {})
            ELSE UNION {WithGames(cp, p, {pg}) : pg \in pgs}
  IN  UNION {UNION {WithPlayerGames(cp, p) : p \in PlayerRows(d, cp.user_id)} :
               cp \in d.channel_players}

\* A leaderboard whose games_played counts the games of every channel.
LeaderboardGroupsOfAllGames(d, channel_id) ==
  {[user_id |-> cp.user_id, rating |-> cp.rating,
    games_played |-> Cardinality({pg \in d.player_games : pg.user_id = cp.user_id})] :
     cp \in {x \in d.channel_players : x.channel_id = channel_id}}

\* WHERE cp.channel_id = ? AND (g.channel_id = ? OR g.channel_id IS NULL)
\* GROUP BY p.user_id, cp.rating, with COUNT(pg.game_id) as games_played.
LeaderboardGroups(d, channel_id) ==
  LET rows == {r \in LeaderboardJoin(d) :
                 /\ r.cp.channel_id = channel_id
                 /\ \A g \in r.g : g.channel_id = channel_id}
      groups == {<<r.p, r.cp.rating>> : r \in rows}
  IN  {[user_id |-> grp[1], rating |-> grp[2],
        games_played |->
          Cardinality({r \in rows : r.p = grp[1] /\ r.cp.rating = grp[2]
                                    /\ r.pg # {}})] : grp \in groups}

HistoryRows(d, user_id, channel_id) ==
  {[game_id |-> pg.game_id, rating_before |-> pg.rating_before,
    rating_after |-> pg.rating_after, position |-> pg.position,
    timestamp |-> g.timestamp, gambled |-> pg.gambled] :
     <<pg, g>> \in {x \in d.player_games \X d.games :
                      /\ x[1].game_id = x[2].id
                      /\ x[1].user_id = user_id
                      /\ x[2].channel_id = channel_id}}

\* ORDER BY column DESC LIMIT limit: every sequence the statement can
\* return.  Rows of equal column come in an order SQLite does not specify,
\* and which of them a limit keeps is not specified either.
Limited(rows, limit) == IF limit < Cardinality(rows) THEN limit ELSE Cardinality(rows)

OrderByDescLimit(rows, column, limit) ==
  {s \in [1..Limited(rows, limit) -> rows] :
     /\ \A i, j \in DOMAIN s : i < j => s[i] # s[j] /\ s[i][column] >= s[j][column]
     /\ \A r \in rows : (\A i \in DOMAIN s : s[i] # r)
                           => \A i \in DOMAIN s : s[i][column] >= r[column]}

\* limit as the callers pass it: a number of digits, or the default 10.
Limits == {0, 1, 2, 10}

get_channel_leaderboard(d, channel_id, limit) ==
  OrderByDescLimit(LeaderboardGroups(d, channel_id), "rating", limit)

get_player_game_history(d, user_id, channel_id, limit) ==
  OrderByDescLimit(HistoryRows(d, user_id, channel_id), "timestamp", limit)

\* A count of the player's games in every channel.
get_player_game_count_in_all_channels(d, user_id, channel_id) ==
  Cardinality({pg \in d.player_games : pg.user_id = user_id})

\* FROM player_games pg JOIN games g ON pg.game_id = g.id WHERE g.channel_id = ?,
\* the rows of one user.
RecordsOfUser(d, user_id, channel_id) ==
  {pg \in d.player_games :
     /\ pg.user_id = user_id
     /\ \E g \in d.games : g.id = pg.game_id /\ g.channel_id = channel_id}

get_player_game_count(d, user_id, channel_id) ==
  Cardinality({x \in d.player_games \X d.games :
                 /\ x[1].game_id = x[2].id
                 /\ x[1].user_id = user_id
                 /\ x[2].channel_id = channel_id})

\* get_channel_statistics, its longest_win_streak, biggest_comeback and
\* total_games entries.  A statistic that is absent from the dictionary has
\* user_id NULL here.  UserOrder is the order of ORDER BY pg.user_id.
UserOrder == <<"u1", "u2", "u3">>

\* SELECT pg.user_id, pg.position, g.timestamp ... WHERE g.channel_id = ?, the
\* rows of one user: in the order of g.timestamp, rows of one second in any.
AllGamesOf(d, channel_id, user_id) ==
  OrderByDescLimit(
    {[game_id |-> pg.game_id, position |-> pg.position, timestamp |-> 0 - g.timestamp] :
       <<pg, g>> \in {x \in d.player_games \X d.games :
                        /\ x[1].game_id = x[2].id
                        /\ x[1].user_id = user_id
                        /\ x[2].channel_id = channel_id}},
    "timestamp", Cardinality(d.player_games))

RECURSIVE WinStreakCountingWins(_, _, _)
WinStreakCountingWins(all_games, current_streak, max_streak) ==
  IF all_games = <<>> THEN max_streak
  ELSE IF Head(all_games).position = 1
    THEN WinStreakCountingWins(Tail(all_games), current_streak + 1,
                               IF current_streak + 1 > max_streak
                                 THEN current_streak + 1 ELSE max_streak)
    ELSE WinStreakCountingWins(Tail(all_games), current_streak, max_streak)

\* The loop over the rows of one user: max_streak as this user leaves it.
RECURSIVE WinStreak(_, _, _)
WinStreak(all_games, current_streak, max_streak) ==
  IF all_games = <<>> THEN max_streak
  ELSE IF Head(all_games).position = 1
    THEN WinStreak(Tail(all_games), current_streak + 1,
                   IF current_streak + 1 > max_streak THEN current_streak + 1
                   ELSE max_streak)
    ELSE WinStreak(Tail(all_games), 0, max_streak)

\* The streaks the loop can find for each user, one choice per order of the
\* rows, and the entry it stores: the first user to reach the maximum.
longest_win_streak(d, channel_id) ==
  LET Streaks(u) == {WinStreak(all_games, 0, 0) :
                       all_games \in AllGamesOf(d, channel_id, u)}
      Entry(m) ==
        LET max_streak == CHOOSE n \in {m[u] : u \in Users} : \A u \in Users : m[u] <= n
            first == CHOOSE i \in DOMAIN UserOrder :
                       /\ m[UserOrder[i]] = max_streak
                       /\ \A j \in 1..(i - 1) : m[UserOrder[j]] # max_streak
        IN  IF max_streak > 1
              THEN [user_id |-> UserOrder[first], streak |-> max_streak]
              ELSE [user_id |-> NULL, streak |-> 0]
  IN  {Entry(m) : m \in {f \in [Users -> 0..Cardinality(d.games)] :
                           \A u \in Users : f[u] \in Streaks(u)}}

\* SELECT pg.user_id, MIN(pg.rating_after), MAX(pg.rating_after), MAX - MIN as
\* comeback ... GROUP BY pg.user_id HAVING comeback > 0 ORDER BY comeback DESC
\* LIMIT 1, stored when comeback > 100.
ComebackThreshold == 100

biggest_comeback(d, channel_id) ==
  LET After(u) == {pg.rating_after : pg \in RecordsOfUser(d, u, channel_id)}
      lowest_rating(u) == CHOOSE r \in After(u) : \A x \in After(u) : r <= x
      highest_rating(u) == CHOOSE r \in After(u) : \A x \in After(u) : x <= r
      rows == {[user_id |-> u, comeback |-> highest_rating(u) - lowest_rating(u),
                from |-> lowest_rating(u), to |-> highest_rating(u)] :
                 u \in {x \in Users : After(x) # {}}}
      first == OrderByDescLimit({r \in rows : r.comeback > 0}, "comeback", 1)
  IN  {IF Len(result) = 1 /\ result[1].comeback > ComebackThreshold
         THEN result[1]
         ELSE [user_id |-> NULL, comeback |-> 0, from |-> 0, to |-> 0] :
       result \in first}

get_channel_statistics(d, channel_id) ==
  {[longest_win_streak |-> streak, biggest_comeback |-> comeback,
    total_games |-> Cardinality({g \in d.games : g.channel_id = channel_id})] :
     streak \in longest_win_streak(d, channel_id),
     comeback \in biggest_comeback(d, channel_id)}

\* src/app.py, process_game_rankings, from the parsed ranking on: the ratings
\* and positions it reports.  The real mode reads the ratings create_game has
\* stored; the simulation calls calculate_group_elo_with_draws itself, with
\* the default k_factor, and takes what it returns as the ratings after.  A
\* ranking that names a player twice makes create_game raise in the one mode
\* and new_ratings[i] run past the list in the other.
process_game_rankings(d, channel_id, ranked_player_ids, is_simulation, time) ==
  LET flat_player_ids == Flatten(ranked_player_ids)
  IN  IF Len(flat_player_ids) < 2
        THEN [db |-> d, raised |-> FALSE, ret |-> NoResult]
        ELSE
          LET positions == player_positions(ranked_player_ids)
              d1 == GetRatings(d, flat_player_ids, channel_id)
              pre_game_ratings ==
                [player_id \in SeqToSet(flat_player_ids) |->
                   ChannelPlayer(d1, player_id, channel_id).rating]
          IN  IF DuplicatePlayers(flat_player_ids)
                THEN [db |-> d1, raised |-> TRUE, ret |-> NoResult]
              ELSE IF ~is_simulation
                THEN LET created == create_game(d1, channel_id, ranked_player_ids, NULL, time)
                         d2 == GetRatings(created.db, flat_player_ids, channel_id)
                     IN  [db |-> d2, raised |-> FALSE,
                          ret |-> [before |-> pre_game_ratings,
                                   after |-> [player_id \in SeqToSet(flat_player_ids) |->
                                                ChannelPlayer(d2, player_id, channel_id).rating],
                                   positions |-> positions]]
                ELSE LET current_ratings ==
                           [i \in 1..Len(flat_player_ids) |->
                              pre_game_ratings[flat_player_ids[i]]]
                         positions_list ==
                           [i \in 1..Len(flat_player_ids) |-> positions[flat_player_ids[i]]]
                         new_ratings ==
                           calculate_group_elo_with_draws(current_ratings, positions_list,
                                                          DEFAULT_K_FACTOR)
                         Index(player_id) ==
                           CHOOSE i \in 1..Len(flat_player_ids) :
                             flat_player_ids[i] = player_id
                     IN  [db |-> d1, raised |-> FALSE,
                          ret |-> [before |-> pre_game_ratings,
                                   after |-> [player_id \in SeqToSet(flat_player_ids) |->
                                                new_ratings[Index(player_id)]],
                                   positions |-> positions]]

(***************************************************************************)
(* The specification of completed calls: every handler runs from its first *)
(* statement to its return, one call at a time.                            *)
(***************************************************************************)
Idle == [op |-> "idle", pc |-> "idle"]
Threads == {1, 2}

SetDBInit ==
  /\ players = {}
  /\ channels = {}
  /\ channel_players = {}
  /\ games = {}
  /\ player_games = {}
  /\ games_seq = 0
  /\ version = {}

Init ==
  /\ SetDBInit
  /\ migrations_dir = {}
  /\ last = [op |-> "init", raised |-> FALSE]
  /\ calls = [t \in Threads |-> Idle]

Returns(op, channel_id, result) ==
  /\ SetDB(result.db)
  /\ last' = [op |-> op, raised |-> result.raised]
  /\ UNCHANGED calls

\* int(time.time()): the clock does not run backwards, and the store keeps of
\* it only the timestamps of the games it holds, of which only the order is
\* read.  A call reads the second of the latest game held or the next one.
Latest(d) ==
  IF d.games = {} THEN 1
  ELSE CHOOSE t \in {g.timestamp : g \in d.games} : \A g \in d.games : g.timestamp <= t

Clock(d) == IF d.games = {} THEN {1} ELSE {Latest(d), Latest(d) + 1}

CreateGame(channel_id, ranked_player_ids, team_id) ==
  /\ games_seq < MaxGames
  /\ \E time \in Clock(DB) :
       Returns("create_game", channel_id,
               create_game(DB, channel_id, ranked_player_ids, team_id, time))

SimulateGame(channel_id, ranked_player_ids, team_id) ==
  Returns("simulate_game", channel_id,
          simulate_game(DB, channel_id, ranked_player_ids, team_id))

UndoLastGame(channel_id) ==
  IF LastGames(DB, channel_id) = {}
    THEN Returns("undo_last_game", channel_id, undo_last_game(DB, channel_id, NoGame))
    ELSE \E last_game \in LastGames(DB, channel_id) :
           Returns("undo_last_game", channel_id,
                   undo_last_game(DB, channel_id, last_game))

TogglePlayerGambling(user_id, channel_id) ==
  Returns("toggle_player_gambling", channel_id,
          toggle_player_gambling(DB, user_id, channel_id))

SetChannelKFactor(channel_id, k_factor) ==
  Returns("set_channel_k_factor", channel_id,
          set_channel_k_factor(DB, channel_id, k_factor))

GetPlayerChannelRating(user_id, channel_id) ==
  Returns("get_player_channel_rating", channel_id,
          get_player_channel_rating(DB, user_id, channel_id))

ResetChannel(channel_id) ==
  Returns("reset_channel", channel_id, reset_channel(DB, channel_id))

Next ==
  \/ \E c \in Channels, r \in Rankings : CreateGame(c, r, TeamOf(c))
  \/ \E c \in Channels, r \in Rankings : SimulateGame(c, r, TeamOf(c))
  \/ \E c \in Channels : UndoLastGame(c)
  \/ \E u \in Gamblers, c \in Channels : TogglePlayerGambling(u, c)
  \/ \E c \in TunedChannels, k \in KFactorArgs : SetChannelKFactor(c, k)
  \/ \E u \in Spectators, c \in Channels : GetPlayerChannelRating(u, c)
  \/ \E c \in Channels : ResetChannel(c)

Spec == Init /\ [][Next]_vars

(***************************************************************************)
(* The statements of a call one at a time.  execute_non_query opens a      *)
(* connection, executes one statement and commits it, so what a call has   *)
(* written so far stays in the store when the call is interrupted, and the *)
(* statements of two calls running in two request threads interleave.      *)
(***************************************************************************)
Running(t) == ~Finished(calls[t])

\* The create_game calls that have begun and not yet inserted their game.
Pending ==
  Cardinality({t \in Threads :
                 /\ calls[t].op = "create_game"
                 /\ calls[t].pc \in {"validate", "get_or_create_channel", "insert_game"}})

BeginCreateGame(t, channel_id, ranked_player_ids, team_id) ==
  /\ Finished(calls[t])
  /\ games_seq + Pending < MaxGames
  /\ calls' = [calls EXCEPT
                 ![t] = CreateGameFrame(DB, channel_id, ranked_player_ids, team_id)]
  /\ UNCHANGED <<players, channels, channel_players, games, player_games, games_seq,
                 last, version, migrations_dir>>

BeginUndoLastGame(t, channel_id) ==
  /\ Finished(calls[t])
  /\ calls' = [calls EXCEPT ![t] = UndoLastGameFrame(DB, channel_id)]
  /\ UNCHANGED <<players, channels, channel_players, games, player_games, games_seq,
                 last, version, migrations_dir>>

StepCreateGame(t) ==
  /\ calls[t].op = "create_game"
  /\ Running(t)
  /\ \E time \in IF calls[t].pc = "insert_game" THEN Clock(DB) ELSE {0} :
       LET s == create_game_step(DB, calls[t], time)
       IN  /\ SetDB(s.db)
           /\ calls' = [calls EXCEPT ![t] = s.frame]
  /\ UNCHANGED last

StepUndoLastGame(t) ==
  /\ calls[t].op = "undo_last_game"
  /\ Running(t)
  /\ \E last_game \in IF calls[t].pc = "select_last_game"
                          /\ LastGames(DB, calls[t].channel_id) # {}
                        THEN LastGames(DB, calls[t].channel_id)
                        ELSE {NoGame} :
       LET s == undo_last_game_step(DB, calls[t], last_game)
       IN  /\ SetDB(s.db)
           /\ calls' = [calls EXCEPT ![t] = s.frame]
  /\ UNCHANGED last

\* The process dies, or a statement fails with a storage error, in the middle
\* of a call: the call is gone, the store is what the statements before left.
Crash(t) ==
  /\ Running(t)
  /\ calls' = [calls EXCEPT ![t] = [@ EXCEPT !.at = calls[t].pc, !.pc = "crashed"]]
  /\ UNCHANGED <<players, channels, channel_players, games, player_games, games_seq,
                 last, version, migrations_dir>>

\* A call of toggle_player_gambling between two calls of the thread.
Toggle(t, user_id, channel_id) ==
  /\ Finished(calls[t])
  /\ SetDB(toggle_player_gambling(DB, user_id, channel_id).db)
  /\ last' = [op |-> "toggle_player_gambling", raised |-> FALSE]
  /\ calls' = [calls EXCEPT ![t] = Idle]

\* One request thread whose calls may be interrupted.
NextCrash ==
  \/ \E r \in Rankings : BeginCreateGame(1, "c1", r, TeamOf("c1"))
  \/ BeginUndoLastGame(1, "c1")
  \/ StepCreateGame(1)
  \/ StepUndoLastGame(1)
  \/ Crash(1)
  \/ \E u \in Gamblers : Toggle(1, u, "c1")

SpecCrash == Init /\ [][NextCrash]_vars

\* Two request threads recording games in the same channel.
NextRace ==
  \/ \E t \in Threads, r \in Rankings : BeginCreateGame(t, "c1", r, TeamOf("c1"))
  \/ \E t \in Threads : StepCreateGame(t)

SpecRace == Init /\ [][NextRace]_vars

\* Games of every shape of ranking: ties in the first, the last and the only
\* rank group, empty rank groups, and rankings create_game refuses.
RankingShapes ==
  {<<<<"u1", "u2">>, <<"u3">>>>,
   <<<<"u1">>, <<"u2", "u3">>>>,
   <<<<"u2">>, <<"u3">>, <<"u1">>>>,
   <<<<"u3", "u2", "u1">>>>,
   <<<<"u2", "u3">>>>,
   <<<<>>, <<"u2">>, <<"u1">>>>,
   <<<<"u1">>, <<>>, <<"u3">>>>,
   <<<<"u3">>, <<"u1", "u2">>, <<>>>>,
   <<<<"u1">>>>,
   <<<<"u1", "u2">>, <<"u1">>>>}

NextRanking ==
  \E c \in Channels, r \in RankingShapes : CreateGame(c, r, TeamOf(c))

SpecRanking == Init /\ [][NextRanking]_vars

\* Games in two channels of one team, with players who are members of both.
TwoChannels == {"c1", "c2"}

ChannelRankings == {<<<<"u1">>, <<"u2">>>>, <<<<"u3">>, <<"u1", "u2">>>>}

NextChannels ==
  \/ \E c \in TwoChannels, r \in ChannelRankings : CreateGame(c, r, TeamOf(c))
  \/ \E c \in TwoChannels : UndoLastGame(c)
  \/ \E c \in TwoChannels : ResetChannel(c)
  \/ \E u \in Spectators, c \in TwoChannels : GetPlayerChannelRating(u, c)

SpecChannels == Init /\ [][NextChannels]_vars

\* Two channels with games of the same players; one of them with a gambling
\* flag and a k-factor of its own.
GroupRankings == {<<<<"u3">>, <<"u1", "u2">>>>}

NextGroups ==
  \/ \E c \in TwoChannels, r \in GroupRankings : CreateGame(c, r, TeamOf(c))
  \/ \E u \in Gamblers, c \in TunedChannels : TogglePlayerGambling(u, c)
  \/ \E c \in TunedChannels : SetChannelKFactor(c, 16)
  \/ \E c \in TwoChannels : UndoLastGame(c)
  \/ \E c \in TwoChannels : ResetChannel(c)

SpecGroups == Init /\ [][NextGroups]_vars

\* Games recorded and undone in one channel, by players who may gamble.
NextUndo ==
  \/ \E c \in Channels, r \in Rankings : CreateGame(c, r, TeamOf(c))
  \/ \E c \in Channels : UndoLastGame(c)
  \/ \E u \in Gamblers, c \in Channels : TogglePlayerGambling(u, c)

SpecUndo == Init /\ [][NextUndo]_vars

\* Games of two players recorded and undone, up to MaxRecorded of them, for
\* the statistics of a channel.
MaxRecorded == 3

StatRankings == {<<<<"u1">>, <<"u2">>>>, <<<<"u2">>, <<"u1">>>>}

RecordGame(channel_id, ranked_player_ids, team_id) ==
  /\ games_seq < MaxRecorded
  /\ \E time \in Clock(DB) :
       Returns("create_game", channel_id,
               create_game(DB, channel_id, ranked_player_ids, team_id, time))

NextStats ==
  \/ \E c \in Channels, r \in StatRankings : RecordGame(c, r, TeamOf(c))
  \/ \E c \in Channels : UndoLastGame(c)

SpecStats == Init /\ [][NextStats]_vars

(***************************************************************************)
(* The migrations of src/migrations.py.  A version string "1.10" is the    *)
(* pair <<1, 10>> of the numbers the sort key reads from it; a file of the *)
(* directory is its version and what follows it in the name.               *)
(***************************************************************************)
ZeroVersion == <<0, 0>>

MigrationFiles ==
  {[version |-> <<1, 0>>, suffix |-> ".sql"],
   [version |-> <<1, 2>>, suffix |-> ".sql"],
   [version |-> <<1, 10>>, suffix |-> ".sql"],
   [version |-> <<1, 1>>, suffix |-> ".sql.bak"]}

TargetVersions == {<<0, 0>>, <<1, 0>>, <<1, 1>>, <<1, 2>>, <<1, 10>>}

\* sorted(versions, key=lambda v: [int(x) for x in v.split('.')])
VersionLess(v, w) == v[1] < w[1] \/ (v[1] = w[1] /\ v[2] < w[2])

RECURSIVE SortedVersions(_)
SortedVersions(versions) ==
  IF versions = {} THEN <<>>
  ELSE LET least == CHOOSE v \in versions :
                      \A w \in versions \ {v} : VersionLess(v, w)
       IN  <<least>> \o SortedVersions(versions \ {least})

\* The files that end in .sql and match ^(\d+\.\d+)\.sql$, in ascending order;
\* none when the directory does not exist.
get_available_migrations(dir) ==
  SortedVersions({file.version : file \in {f \in dir : f.suffix = ".sql"}})

\* SELECT version FROM version ORDER BY applied_at DESC LIMIT 1, or '0.0': the
\* versions the query can return, rows of one applied_at in any order.
get_current_version(ledger) ==
  IF ledger = {} THEN {ZeroVersion}
  ELSE {rows[1].version : rows \in OrderByDescLimit(ledger, "applied_at", 1)}

get_applied_migrations(ledger) == {row.version : row \in ledger}

\* available_migrations.index(version), counted from 1; 0 when it is not in
\* the list (the code counts from 0 and takes -1).
IndexOf(available_migrations, v) ==
  IF \E i \in DOMAIN available_migrations : available_migrations[i] = v
    THEN CHOOSE i \in DOMAIN available_migrations : available_migrations[i] = v
    ELSE 0

\* What a migration script leaves in the ledger: the row of its version.
ScriptApplied(ledger, v, applied_at) ==
  ledger \cup {[version |-> v, applied_at |-> applied_at]}

\* for i in range(current_index + 1, target_index + 1), from index i on: the
\* script whose version is failing raises, with its row written or not;
\* every script runs pace seconds after the one before.
RECURSIVE ApplyMigrations(_, _, _, _, _, _, _, _, _, _)
ApplyMigrations(ledger, available_migrations, i, target_index, applied_migrations, failing, partly, time, pace, executed) ==
  IF i > target_index
    THEN [version |-> ledger, raised |-> FALSE, executed |-> executed]
  ELSE IF available_migrations[i] \in applied_migrations
    THEN ApplyMigrations(ledger, available_migrations, i + 1, target_index,
                         applied_migrations, failing, partly, time, pace, executed)
  ELSE IF available_migrations[i] = failing
    THEN [version |-> IF partly
                        THEN ScriptApplied(ledger, available_migrations[i], time)
                        ELSE ledger,
          raised |-> TRUE,
          executed |-> Append(executed, available_migrations[i])]
  ELSE ApplyMigrations(ScriptApplied(ledger, available_migrations[i], time),
                       available_migrations, i + 1, target_index, applied_migrations,
                       failing, partly, time + pace, pace,
                       Append(executed, available_migrations[i]))

migrate_to_version(ledger, dir, target_version, current_version, failing, partly, time, pace) ==
  LET available_migrations == get_available_migrations(dir)
      applied_migrations == get_applied_migrations(ledger)
      target_index == IndexOf(available_migrations, target_version)
      current_index == IndexOf(available_migrations, current_version)
      unchanged == [version |-> ledger, raised |-> FALSE, executed |-> <<>>]
  IN  IF available_migrations = <<>> THEN unchanged
      ELSE IF current_version = target_version THEN unchanged
      ELSE IF target_index = 0 THEN [unchanged EXCEPT !.raised = TRUE]
      ELSE IF current_index >= target_index THEN unchanged
      ELSE ApplyMigrations(ledger, available_migrations, current_index + 1,
                           target_index, applied_migrations, failing, partly, time,
                           pace, <<>>)

\* The second a call starts in: that of the latest row of the ledger or the
\* one after it.
MigrationClock(ledger) ==
  IF ledger = {} THEN {1}
  ELSE LET latest == CHOOSE t \in {row.applied_at : row \in ledger} :
                       \A row \in ledger : row.applied_at <= t
       IN  {latest, latest + 1}

MigrateToVersion(target_version) ==
  \E current_version \in get_current_version(version),
     failing \in {ZeroVersion} \cup {file.version : file \in migrations_dir},
     partly \in BOOLEAN, time \in MigrationClock(version), pace \in {0, 1} :
    LET result == migrate_to_version(version, migrations_dir, target_version,
                                     current_version, failing, partly, time, pace)
    IN  /\ version' = result.version
        /\ last' = [op |-> "migrate_to_version", raised |-> result.raised,
                    target_version |-> target_version,
                    current_version |-> current_version,
                    available_migrations |-> get_available_migrations(migrations_dir),
                    applied_migrations |-> get_applied_migrations(version),
                    failing |-> failing,
                    executed |-> result.executed]
        /\ UNCHANGED <<players, channels, channel_players, games, player_games,
                       games_seq, calls, migrations_dir>>

\* A database without a version table and a migrations directory with any of
\* the files.
InitMigrations ==
  /\ SetDBInit
  /\ last = [op |-> "init", raised |-> FALSE]
  /\ calls = [t \in Threads |-> Idle]
  /\ migrations_dir \in SUBSET MigrationFiles

NextMigrations == \E target_version \in TargetVersions : MigrateToVersion(target_version)

SpecMigrations == InitMigrations /\ [][NextMigrations]_vars

\* The rating arithmetic on its own: calculate_group_elo_with_draws applied to
\* lists of 2 to MaxPlayers ratings and positions.  last holds the arguments
\* of the call and, once it has returned, the list returned.
MaxPlayers == 4

RatingArgs == {1000, 1010, 1400}
PositionArgs == {1, 2, 4}
EloKFactors == {16, 32}

InitElo ==
  /\ SetDBInit
  /\ migrations_dir = {}
  /\ calls = [t \in Threads |-> Idle]
  /\ \E n \in 2..MaxPlayers :
       \E elos \in [1..n -> RatingArgs], places \in [1..n -> PositionArgs],
          k \in EloKFactors :
         last = [op |-> "init", raised |-> FALSE, player_elos |-> elos,
                 player_positions |-> places, k_factor |-> k, ret |-> <<>>]

CalculateGroupEloWithDraws ==
  /\ last.op = "init"
  /\ last' = [last EXCEPT
       !.op = "calculate_group_elo_with_draws",
       !.ret = calculate_group_elo_with_draws(last.player_elos, last.player_positions,
                                              last.k_factor)]
  /\ UNCHANGED <<players, channels, channel_players, games, player_games, games_seq,
                 calls, version, migrations_dir>>

NextElo == CalculateGroupEloWithDraws

SpecElo == InitElo /\ [][NextElo]_vars

(***************************************************************************)
(* The properties.  RatingOf is what get_player_channel_rating returns,    *)
(* Participants the players a ranking names.                               *)
(***************************************************************************)
RatingOf(d, user_id, channel_id) == get_player_channel_rating(d, user_id, channel_id).ret

ChannelGames(d, channel_id) == {g \in d.games : g.channel_id = channel_id}

\* C1: after any sequence of completed calls, the rating of every
\* channel_players row is the rating_after of the player's most recently
\* created player_games row in that channel, or 1000 when there is none.
C1_RatingIsLatestRatingAfter ==
  \A cp \in channel_players :
    LET rows == {pg \in player_games :
                   /\ pg.user_id = cp.user_id
                   /\ \E g \in ChannelGames(DB, cp.channel_id) : g.id = pg.game_id}
    IN  IF rows = {}
          THEN cp.rating = INITIAL_RATING
          ELSE \A pg \in rows :
                 (\A other \in rows : other.game_id <= pg.game_id)
                   => cp.rating = pg.rating_after

\* C2: a strict one-against-one game between two players rated 1000, neither
\* gambling, in a channel with k-factor 32, leaves the winner at 1016 and the
\* loser at 984, with records (1000, 1016) and (1000, 984).
C2_EqualOneOnOne ==
  \A c \in Channels, time \in Clock(DB) :
    LET after == create_game(DB, c, <<<<"u1">>, <<"u2">>>>, TeamOf(c), time).db
        Record(user_id, rating_after) ==
          \E pg \in after.player_games :
            /\ pg.game_id = lastrowid(DB)
            /\ pg.user_id = user_id
            /\ pg.rating_before = 1000
            /\ pg.rating_after = rating_after
    IN  (/\ RatingOf(DB, "u1", c) = 1000
         /\ RatingOf(DB, "u2", c) = 1000
         /\ ~is_player_gambling(DB, "u1", c).ret
         /\ ~is_player_gambling(DB, "u2", c).ret
         /\ get_channel_k_factor(DB, c).ret = 32)
        => /\ RatingOf(after, "u1", c) = 1016
           /\ RatingOf(after, "u2", c) = 984
           /\ Record("u1", 1016)
           /\ Record("u2", 984)

\* C3: calculate_group_elo_with_draws returns, index by index, the amount to
\* add to each player's rating (not the new rating), and create_game adds
\* that amount, times the gambling multiplier, to the rating before.
C3_CalculatorReturnsDeltas ==
  \A c \in Channels, r \in Rankings, time \in Clock(DB) :
    LET flat == Flatten(r)
        elos == [i \in 1..Len(flat) |-> RatingOf(DB, flat[i], c)]
        positions == [i \in 1..Len(flat) |-> player_positions(r)[flat[i]]]
        k == get_channel_k_factor(DB, c).ret
        returned == calculate_group_elo_with_draws(elos, positions, k)
        delta == [i \in 1..Len(flat) |->
                    round(elo_changes(elos, positions, k, i), Len(flat) - 1, TRUE)]
        multiplier == [i \in 1..Len(flat) |->
                         IF is_player_gambling(DB, flat[i], c).ret THEN 2 ELSE 1]
        after == create_game(DB, c, r, TeamOf(c), time).db
    IN  (Len(flat) >= 2 /\ Cardinality(SeqToSet(flat)) = Len(flat))
        => /\ Len(returned) = Len(flat)
           /\ \A i \in 1..Len(flat) :
                /\ returned[i] = delta[i]
                /\ \E pg \in after.player_games :
                     /\ pg.game_id = lastrowid(DB)
                     /\ pg.user_id = flat[i]
                     /\ pg.rating_after = pg.rating_before + delta[i] * multiplier[i]

\* C4: from any state, create_game followed at once by undo_last_game on the
\* same channel gives every participant the rating held before the
\* create_game, and leaves get_player_game_history and get_player_game_count
\* of every player of the channel what they were.
C4_CreateThenUndoRestores ==
  \A c \in Channels, r \in Rankings, time \in Clock(DB) :
    LET flat == Flatten(r)
        created == create_game(DB, c, r, TeamOf(c), time).db
    IN  (Len(flat) >= 2 /\ Cardinality(SeqToSet(flat)) = Len(flat))
        => \A last_game \in LastGames(created, c) :
             LET undone == undo_last_game(created, c, last_game).db
             IN  /\ \A u \in SeqToSet(flat) : RatingOf(undone, u, c) = RatingOf(DB, u, c)
                 /\ \A u \in Users :
                      /\ HistoryRows(undone, u, c)
                           = HistoryRows(DB, u, c)
                      /\ get_player_game_count(undone, u, c)
                           = get_player_game_count(DB, u, c)

\* C5: from any state, also one where a participant was never seen in the
\* channel, create_game followed at once by undo_last_game leaves
\* get_channel_leaderboard of the channel what it was: the same players,
\* ratings and games_played.
C5_CreateThenUndoKeepsLeaderboard ==
  \A c \in Channels, r \in Rankings, time \in Clock(DB) :
    LET flat == Flatten(r)
        created == create_game(DB, c, r, TeamOf(c), time).db
    IN  (Len(flat) >= 2 /\ Cardinality(SeqToSet(flat)) = Len(flat))
        => \A last_game \in LastGames(created, c) :
             LeaderboardGroups(undo_last_game(created, c, last_game).db, c)
               = LeaderboardGroups(DB, c)

\* C9: create_game with fewer than 2 players in all, or with a player named
\* more than once, raises and leaves the whole store as it was: no players,
\* channels, channel_players, games or player_games row is created or changed.
C9_InvalidCreateGameWritesNothing ==
  \A c \in Channels, r \in Rankings, time \in Clock(DB) :
    (\/ Len(Flatten(r)) < 2
     \/ Cardinality(SeqToSet(Flatten(r))) < Len(Flatten(r)))
    => LET result == create_game(DB, c, r, TeamOf(c), time)
       IN  /\ result.raised
           /\ result.db.players = players
           /\ result.db.channels = channels
           /\ result.db.channel_players = channel_players
           /\ result.db.games = games
           /\ result.db.player_games = player_games

\* An invalid create_game has raised in a store that holds rows.
C9_Witness ==
  /\ last.op = "create_game"
  /\ last.raised
  /\ channel_players # {}
  /\ games # {}

\* C10: undo_last_game on a channel with no game (none recorded, all undone,
\* or reset) raises and leaves every rating, gambling flag, game and
\* player_games row of every channel as it was.
C10_UndoWithoutGameWritesNothing ==
  [][\A c \in Channels :
       (ChannelGames(DB, c) = {} /\ UndoLastGame(c))
       => /\ last'.raised
          /\ UNCHANGED <<channel_players, games, player_games>>]_vars

\* undo_last_game has raised on a channel whose games were undone or reset,
\* and whose members remain.
C10_Witness ==
  /\ last.op = "undo_last_game"
  /\ last.raised
  /\ games = {}
  /\ games_seq > 0
  /\ channel_players # {}

\* C6: create_game is atomic.  Interrupted after any of its statements, it
\* leaves in the store either all of its effects (the games row, a
\* player_games row per participant, every participant's rating updated and
\* consumed gambling flag cleared) or none of them.
C6_CreateGameAllOrNothing ==
  \A t \in Threads :
    (calls[t].op = "create_game" /\ calls[t].pc = "crashed")
    => LET f == calls[t]
           all == RunCreateGame(f.pre,
                                CreateGameFrame(f.pre, f.channel_id,
                                                f.ranked_player_ids, f.team_id),
                                f.timestamp).db
       IN  \/ /\ games = f.pre.games
              /\ player_games = f.pre.player_games
              /\ \A cp \in f.pre.channel_players : cp \in channel_players
           \/ /\ games = all.games
              /\ player_games = all.player_games
              /\ channel_players = all.channel_players

\* C7: undo_last_game is atomic.  Interrupted after any of its statements, it
\* leaves the store either as it was before the undo or as the whole undo
\* makes it: never ratings reverted with the game still there, never the
\* games row deleted with its player_games rows still there.
C7_UndoLastGameAllOrNothing ==
  \A t \in Threads :
    (calls[t].op = "undo_last_game" /\ calls[t].pc = "crashed")
    => LET f == calls[t]
           undone ==
             IF f.game_id = 0 THEN f.pre
             ELSE RunUndoLastGame(f.pre, UndoLastGameFrame(f.pre, f.channel_id),
                                  CHOOSE g \in f.pre.games : g.id = f.game_id).db
       IN  \/ /\ games = f.pre.games
              /\ player_games = f.pre.player_games
              /\ channel_players = f.pre.channel_players
           \/ /\ games = undone.games
              /\ player_games = undone.player_games
              /\ channel_players = undone.channel_players

\* C8: two create_game calls on one channel that share a participant and run
\* at the same time end, whatever the interleaving of their statements, in
\* the state that running one call after the other, in one of the two
\* orders, produces; no rating update is lost.
C8_ConcurrentCreateGameSerializable ==
  LET Call(f, d) ==
        RunCreateGame(d, CreateGameFrame(d, f.channel_id, f.ranked_player_ids,
                                         f.team_id),
                      f.timestamp).db
      OneAfterTheOther(f, g, d) == Call(g, Call(f, d))
      Same(d) ==
        /\ players = d.players
        /\ channels = d.channels
        /\ channel_players = d.channel_players
        /\ games = d.games
        /\ player_games = d.player_games
  IN  (/\ \A t \in Threads : calls[t].op = "create_game" /\ calls[t].pc = "done"
       /\ calls[1].channel_id = calls[2].channel_id
       /\ SeqToSet(Flatten(calls[1].ranked_player_ids))
            \cap SeqToSet(Flatten(calls[2].ranked_player_ids)) # {})
      => \E d \in {calls[1].pre, calls[2].pre} :
           \/ Same(OneAfterTheOther(calls[1], calls[2], d))
           \/ Same(OneAfterTheOther(calls[2], calls[1], d))

\* C11: undo_last_game removes the game of the channel that was created
\* last, also when several games of the channel carry the same timestamp: a
\* step never removes a game while a game of the same channel created after
\* it remains.
C11_UndoRemovesNewestGame ==
  [][\A g \in games \ games' :
       \A h \in games' : h.channel_id = g.channel_id => h.id < g.id]_vars

\* C12: simulate_game, whether it returns or raises, changes nothing that
\* get_player_channel_rating, get_player_game_history, get_player_game_count
\* and is_player_gambling return, for any player and channel.
C12_SimulateGameKeepsReads ==
  \A c \in Channels, r \in Rankings :
    LET after == simulate_game(DB, c, r, TeamOf(c)).db
    IN  \A u \in Users, ch \in Channels :
          /\ RatingOf(after, u, ch) = RatingOf(DB, u, ch)
          /\ HistoryRows(after, u, ch) = HistoryRows(DB, u, ch)
          /\ get_player_game_count(after, u, ch) = get_player_game_count(DB, u, ch)
          /\ is_player_gambling(after, u, ch).ret = is_player_gambling(DB, u, ch).ret

\* simulate_game has returned in a store that holds a game and a set
\* gambling flag.
C12_Witness ==
  /\ last.op = "simulate_game"
  /\ ~last.raised
  /\ games # {}
  /\ \E cp \in channel_players : cp.gambling = 1

\* C13: a simulate_game that returns has written nothing: the players,
\* channels (team_id included), channel_players, games and player_games rows
\* are what they were, also when the channel or a participant was never seen.
C13_SimulateGameWritesNothing ==
  \A c \in Channels, r \in Rankings :
    LET result == simulate_game(DB, c, r, TeamOf(c))
    IN  ~result.raised
        => /\ result.db.players = players
           /\ result.db.channels = channels
           /\ result.db.channel_players = channel_players
           /\ result.db.games = games
           /\ result.db.player_games = player_games

\* C14: for any state and valid ranking, what simulate_game returns is what
\* create_game with the same arguments stores: before is each participant's
\* rating_before, after the rating_after (with the channel's k-factor and the
\* participant's gambling flag), positions the stored position.
C14_SimulateGameAgreesWithCreateGame ==
  \A c \in Channels, r \in Rankings, time \in Clock(DB) :
    LET flat == Flatten(r)
        simulated == simulate_game(DB, c, r, TeamOf(c)).ret
        created == create_game(DB, c, r, TeamOf(c), time).db
    IN  (Len(flat) >= 2 /\ Cardinality(SeqToSet(flat)) = Len(flat))
        => \A u \in SeqToSet(flat) :
             \E pg \in created.player_games :
               /\ pg.game_id = lastrowid(DB)
               /\ pg.user_id = u
               /\ simulated.before[u] = pg.rating_before
               /\ simulated.after[u] = pg.rating_after
               /\ simulated.positions[u] = pg.position

\* simulate_game has returned for a channel with a k-factor other than the
\* default and a player whose gambling flag is set.
C14_Witness ==
  /\ last.op = "simulate_game"
  /\ ~last.raised
  /\ \E ch \in channels : ch.k_factor # DEFAULT_K_FACTOR
  /\ \E cp \in channel_players : cp.gambling = 1

\* C15: a participant whose gambling flag is set when create_game records a
\* game changes by exactly twice the calculator's delta (the rating before is
\* not multiplied), every other participant by exactly the delta, and the
\* same ranking recorded again right after changes everybody by the delta
\* alone.
C15_GamblingDoublesTheDelta ==
  \A c \in Channels, r \in Rankings, time \in Clock(DB) :
    LET flat == Flatten(r)
        positions == [i \in 1..Len(flat) |-> player_positions(r)[flat[i]]]
        Delta(d, i) ==
          round(elo_changes([j \in 1..Len(flat) |-> RatingOf(d, flat[j], c)],
                            positions, get_channel_k_factor(d, c).ret, i),
                Len(flat) - 1, TRUE)
        first == create_game(DB, c, r, TeamOf(c), time).db
        second == create_game(first, c, r, TeamOf(c), time + 1).db
    IN  (Len(flat) >= 2 /\ Cardinality(SeqToSet(flat)) = Len(flat))
        => \A i \in 1..Len(flat) :
             /\ \E pg \in first.player_games :
                  /\ pg.game_id = lastrowid(DB)
                  /\ pg.user_id = flat[i]
                  /\ pg.rating_after - pg.rating_before =
                       (IF is_player_gambling(DB, flat[i], c).ret THEN 2 ELSE 1)
                         * Delta(DB, i)
             /\ \E pg \in second.player_games :
                  /\ pg.game_id = lastrowid(first)
                  /\ pg.user_id = flat[i]
                  /\ pg.rating_after - pg.rating_before = Delta(first, i)

\* C16: after a create_game that returns, the gambling flag of every
\* participant is clear in that channel, the gambled column of each new
\* player_games row is the flag the participant had before the call, and the
\* channel_players rows of the players who did not take part are unchanged.
C16_CreateGameConsumesGambling ==
  \A c \in Channels, r \in Rankings, time \in Clock(DB) :
    LET flat == Flatten(r)
        created == create_game(DB, c, r, TeamOf(c), time).db
    IN  (Len(flat) >= 2 /\ Cardinality(SeqToSet(flat)) = Len(flat))
        => /\ \A u \in SeqToSet(flat) :
                /\ \A cp \in ChannelPlayerRows(created, u, c) : cp.gambling = 0
                /\ ~is_player_gambling(created, u, c).ret
                /\ \E pg \in created.player_games :
                     /\ pg.game_id = lastrowid(DB)
                     /\ pg.user_id = u
                     /\ pg.gambled = IF is_player_gambling(DB, u, c).ret THEN 1 ELSE 0
           /\ \A u \in Users \ SeqToSet(flat) :
                ChannelPlayerRows(created, u, c) = ChannelPlayerRows(DB, u, c)

\* create_game has returned, a game stored has consumed a gambling flag, and
\* a flag is set.
C16_Witness ==
  /\ last.op = "create_game"
  /\ ~last.raised
  /\ \E pg \in player_games : pg.gambled = 1
  /\ \E cp \in channel_players : cp.gambling = 1

\* C17: toggle_player_gambling returns the new flag, the negation of what
\* is_player_gambling returned before the call (false for a player not yet
\* seen); a second toggle restores the flag; a toggle changes no rating, game
\* or player_games row.
C17_ToggleNegatesTheFlag ==
  \A u \in Users, c \in Channels :
    LET before == is_player_gambling(DB, u, c).ret
        once == toggle_player_gambling(DB, u, c)
        twice == toggle_player_gambling(once.db, u, c)
    IN  /\ once.ret = ~before
        /\ is_player_gambling(once.db, u, c).ret = once.ret
        /\ twice.ret = before
        /\ is_player_gambling(twice.db, u, c).ret = before
        /\ ChannelPlayerRows(DB, u, c) = {} => once.ret
        /\ \A v \in Users : RatingOf(once.db, v, c) = RatingOf(DB, v, c)
        /\ once.db.games = games
        /\ once.db.player_games = player_games

\* toggle_player_gambling has cleared a flag that was set, in a store that
\* holds a game.
C17_Witness ==
  /\ last.op = "toggle_player_gambling"
  /\ games # {}
  /\ \E cp \in channel_players : cp.user_id \in Gamblers /\ cp.gambling = 0

\* C18: set_channel_k_factor with 0 or a negative value raises and leaves the
\* k-factor and the rest of the store as they were; get_channel_k_factor
\* always returns a positive integer, and 32 for a channel whose k-factor no
\* set_channel_k_factor that returned has written.
C18_KFactorStaysPositive ==
  /\ [](\A c \in Channels :
          /\ \A k \in KFactorArgs :
               k <= 0 => /\ set_channel_k_factor(DB, c, k).raised
                         /\ set_channel_k_factor(DB, c, k).db = DB
          /\ get_channel_k_factor(DB, c).ret \in Nat \ {0}
          /\ ChannelRows(DB, c) = {} => get_channel_k_factor(DB, c).ret = 32)
  /\ [][\A now \in channels' :
          LET was == {ch \in channels : ch.channel_id = now.channel_id}
          IN  (\/ was = {} /\ now.k_factor # 32
               \/ \E ch \in was : ch.k_factor # now.k_factor)
              => last'.op = "set_channel_k_factor" /\ ~last'.raised]_vars

\* set_channel_k_factor has raised on a channel whose k-factor had been set.
C18_Witness ==
  /\ last.op = "set_channel_k_factor"
  /\ last.raised
  /\ \E ch \in channels : ch.k_factor = 16

\* C19: get_player_channel_rating for a player without a channel_players row
\* in the channel returns 1000 and leaves a row with rating 1000 and the
\* gambling flag clear; for a player with a row it returns the rating stored
\* and changes nothing.
C19_GetRatingCreatesMembership ==
  \A u \in Users, c \in Channels :
    LET result == get_player_channel_rating(DB, u, c)
    IN  /\ ~result.raised
        /\ IF ChannelPlayerRows(DB, u, c) = {}
             THEN /\ result.ret = 1000
                  /\ ChannelPlayerRows(result.db, u, c) =
                       {[user_id |-> u, channel_id |-> c, rating |-> 1000,
                         gambling |-> 0]}
             ELSE /\ result.ret = ChannelPlayer(DB, u, c).rating
                  /\ result.db = DB

\* get_player_channel_rating has returned the rating of a player whose row
\* holds a rating other than 1000.
C19_Witness ==
  /\ last.op = "get_player_channel_rating"
  /\ \E cp \in channel_players : cp.user_id \in Spectators /\ cp.rating # 1000

\* C20: in every reachable state get_channel_leaderboard of a channel that
\* holds no game is empty, whatever calls were made on the channel before.
C20_LeaderboardEmptyWithoutGames ==
  \A c \in Channels :
    ChannelGames(DB, c) = {} => LeaderboardGroups(DB, c) = {}

\* C21: reset_channel returns the number of games the channel held; after it
\* the channel holds no game, no player_games row and no channel_players
\* row, so get_player_channel_rating returns 1000 for every player and
\* undo_last_game raises; the k-factor of the channel is what it was.
C21_ResetChannelWipesTheChannel ==
  \A c \in Channels :
    LET result == reset_channel(DB, c)
        after == result.db
    IN  /\ ~result.raised
        /\ result.ret = Cardinality(ChannelGames(DB, c))
        /\ ChannelGames(after, c) = {}
        /\ \A pg \in after.player_games :
             \A g \in ChannelGames(DB, c) : pg.game_id # g.id
        /\ \A cp \in after.channel_players : cp.channel_id # c
        /\ \A u \in Users : RatingOf(after, u, c) = 1000
        /\ undo_last_game(after, c, NoGame).raised
        /\ LastGames(after, c) = {}
        /\ get_channel_k_factor(after, c).ret = get_channel_k_factor(DB, c).ret

\* reset_channel has returned on a channel that had held games and whose
\* k-factor had been set.
C21_Witness ==
  /\ last.op = "reset_channel"
  /\ games_seq > 0
  /\ games = {}
  /\ channel_players = {}
  /\ \E ch \in channels : ch.k_factor = 16

\* C23: in every state reached by completed calls, every game stored has at
\* least 2 player_games rows, and no two of them name the same player.
C23_GamesHaveDistinctParticipants ==
  \A g \in games :
    LET rows == {pg \in player_games : pg.game_id = g.id}
    IN  /\ Cardinality(rows) >= 2
        /\ \A pg \in rows, other \in rows : pg.user_id = other.user_id => pg = other

\* create_game has returned and a game of three players is stored.
C23_Witness ==
  /\ last.op = "create_game"
  /\ ~last.raised
  /\ \E g \in games : Cardinality({pg \in player_games : pg.game_id = g.id}) = 3

\* C24: after any sequence of calls there is at most one players row per
\* user, one channels row per channel and one channel_players row per user
\* and channel; a get-or-create call on a row that exists returns it as it
\* is, with its rating, gambling flag and k-factor, and one on a row that is
\* missing leaves exactly one.
C24_GetOrCreateIsIdempotent ==
  /\ \A u \in Users : Cardinality(PlayerRows(DB, u)) <= 1
  /\ \A c \in Channels :
       /\ Cardinality(ChannelRows(DB, c)) <= 1
       /\ \A team_id \in {NULL, TeamOf(c)} :
            LET created == get_or_create_channel(DB, c, team_id)
            IN  /\ Cardinality(ChannelRows(created, c)) = 1
                /\ get_or_create_channel(created, c, team_id) = created
                /\ ChannelRows(DB, c) # {}
                     => Channel(created, c).k_factor = Channel(DB, c).k_factor
  /\ \A u \in Users, c \in Channels :
       LET created == get_or_create_channel_player(DB, u, c)
       IN  /\ Cardinality(ChannelPlayerRows(DB, u, c)) <= 1
           /\ Cardinality(ChannelPlayerRows(created, u, c)) = 1
           /\ Cardinality(PlayerRows(created, u)) = 1
           /\ get_or_create_channel_player(created, u, c) = created
           /\ ChannelPlayerRows(DB, u, c) # {} => created = DB

\* get_player_channel_rating has returned for a player whose row holds a set
\* gambling flag, in a channel whose k-factor had been set.
C24_Witness ==
  /\ last.op = "get_player_channel_rating"
  /\ \E cp \in channel_players : cp.user_id \in Spectators /\ cp.gambling = 1
  /\ \E ch \in channels : ch.k_factor = 16

\* The rank group of a ranking that names the player, and the number of
\* players the rank groups before group j name.
GroupOf(ranked_player_ids, player_id) ==
  CHOOSE j \in 1..Len(ranked_player_ids) : player_id \in SeqToSet(ranked_player_ids[j])

EarlierPlayers(ranked_player_ids, j) ==
  SumSeq([i \in 1..(j - 1) |-> Len(ranked_player_ids[i])])

RecordsOf(d, user_id, channel_id) ==
  {pg \in d.player_games :
     /\ pg.user_id = user_id
     /\ \E g \in ChannelGames(d, channel_id) : g.id = pg.game_id}

\* C25: get_player_game_history(user, channel, limit) returns at most limit
\* rows, each of them a player_games row of that player in a game of that
\* channel and none of them twice, the later timestamp first; and
\* get_player_game_count(user, channel) is the number of the player's rows in
\* the channel whatever the limit: one more after create_game names the
\* player, none after reset_channel.
C25_HistoryIsLatestFirstAndCounted ==
  \A u \in Users, c \in TwoChannels :
    /\ \A limit \in Limits :
         \A history \in get_player_game_history(DB, u, c, limit) :
           /\ Len(history) <= limit
           /\ \A i \in DOMAIN history :
                \E pg \in RecordsOf(DB, u, c) :
                  /\ history[i].game_id = pg.game_id
                  /\ history[i].rating_before = pg.rating_before
                  /\ history[i].rating_after = pg.rating_after
                  /\ history[i].position = pg.position
                  /\ history[i].gambled = pg.gambled
                  /\ \E g \in games : g.id = pg.game_id /\ g.timestamp = history[i].timestamp
           /\ \A i, j \in DOMAIN history :
                i < j => /\ history[i].game_id # history[j].game_id
                         /\ history[i].timestamp >= history[j].timestamp
    /\ get_player_game_count(DB, u, c) = Cardinality(RecordsOf(DB, u, c))
    /\ get_player_game_count(reset_channel(DB, c).db, u, c) = 0
    /\ \A r \in ChannelRankings, time \in Clock(DB) :
         get_player_game_count(create_game(DB, c, r, TeamOf(c), time).db, u, c)
           = get_player_game_count(DB, u, c)
               + (IF u \in SeqToSet(Flatten(r)) THEN 1 ELSE 0)

\* A player has played a game in each channel, and a game more in one of
\* them than the limit asks for.
C25_Witness ==
  /\ last.op = "create_game"
  /\ get_player_game_count(DB, "u1", "c1") = 2
  /\ \E history \in get_player_game_history(DB, "u1", "c1", 1) :
       /\ Len(history) = 1
       /\ \E g \in games : g.timestamp < history[1].timestamp

\* C26: get_channel_leaderboard(channel, limit) returns at most limit
\* entries, the higher rating first; the rating of an entry is the rating of
\* the player's channel_players row in the channel, and its games_played is
\* the number of games of that channel, and of no other, that hold a
\* player_games row of the player.
C26_LeaderboardIsRatedAndCounted ==
  \A c \in TwoChannels, limit \in Limits :
    \A leaderboard \in get_channel_leaderboard(DB, c, limit) :
      /\ Len(leaderboard) <= limit
      /\ \A i, j \in DOMAIN leaderboard :
           i < j => leaderboard[i].rating >= leaderboard[j].rating
      /\ \A i \in DOMAIN leaderboard :
           /\ \E cp \in ChannelPlayerRows(DB, leaderboard[i].user_id, c) :
                leaderboard[i].rating = cp.rating
           /\ leaderboard[i].games_played =
                Cardinality({g \in ChannelGames(DB, c) :
                               \E pg \in player_games :
                                 /\ pg.game_id = g.id
                                 /\ pg.user_id = leaderboard[i].user_id})

\* Two players have played a game in each channel, and the leaderboard of
\* one channel is asked for its first entry.
C26_Witness ==
  /\ last.op = "create_game"
  /\ ChannelGames(DB, "c1") # {}
  /\ ChannelGames(DB, "c2") # {}
  /\ \E leaderboard \in get_channel_leaderboard(DB, "c1", 1) :
       /\ Len(leaderboard) = 1
       /\ leaderboard[1].games_played = 1
       /\ \E cp \in ChannelPlayerRows(DB, "u2", "c1") : cp.rating < leaderboard[1].rating

\* What the call in last has added to each rating, and the sum of it.
Changes == [i \in DOMAIN last.ret |-> last.ret[i] - last.player_elos[i]]

Returned == last.op = "calculate_group_elo_with_draws"

Abs(x) == IF x < 0 THEN 0 - x ELSE x

\* C27: for every number N >= 2 of players, every list of ratings and every
\* list of positions, the ratings calculate_group_elo_with_draws returns
\* minus the ratings it was given sum to at most N * 0.5 in absolute value.
C27_ChangesSumWithinRounding ==
  Returned => /\ Len(last.ret) = Len(last.player_elos)
              /\ 2 * Abs(SumSeq(Changes)) <= Len(last.player_elos)

\* The call has returned for players of whom some tied and some did not, and
\* the changes do not sum to zero.
C27_Witness ==
  /\ Returned
  /\ SumSeq(Changes) # 0
  /\ \E i, j \in DOMAIN last.ret : last.player_positions[i] < last.player_positions[j]
  /\ \E i, j \in DOMAIN last.ret : i # j /\ last.player_positions[i] = last.player_positions[j]

\* C28: a draw of two players of unequal rating takes rating from the higher
\* rated player and gives rating to the lower rated one, for every positive
\* k-factor and every difference of the ratings, however small.
C28_DrawMovesRatingsTogether ==
  (/\ Returned
   /\ Len(last.player_elos) = 2
   /\ last.player_positions[1] = last.player_positions[2]
   /\ last.k_factor > 0)
  => \A i, j \in 1..2 :
       last.player_elos[i] > last.player_elos[j] => Changes[i] < 0 /\ Changes[j] > 0

\* C30: for ratings [1000, 1000, 1000, 1000], positions [1, 2, 2, 4] and
\* k-factor 32 the changes are [+16, 0, 0, -16].
C30_TieForSecondOfFour ==
  (/\ Returned
   /\ last.player_elos = <<1000, 1000, 1000, 1000>>
   /\ last.player_positions = <<1, 2, 2, 4>>
   /\ last.k_factor = 32)
  => Changes = <<16, 0, 0, 0 - 16>>

\* The call of the example has returned.
C30_Witness ==
  /\ Returned
  /\ last.player_elos = <<1000, 1000, 1000, 1000>>
  /\ last.player_positions = <<1, 2, 2, 4>>
  /\ last.k_factor = 32
  /\ Len(last.ret) = 4

\* k * (score - expected) for one opponent, unrounded, in thousandths: the
\* score is 1 for a better position, 0.5 for the same and 0 for a worse one.
\* The thousandths are cut off, so the value is within 2 of the exact one.
UnroundedTerm(elos, places, k, i, j) ==
  LET expected == Expected(elos[i], elos[j])
      twice_score == IF places[i] < places[j] THEN 2
                     ELSE IF places[i] = places[j] THEN 1 ELSE 0
      num == k * (twice_score * expected.den - 2 * expected.num)
      den == 2 * expected.den
      Thousandths(n) == 1000 * (n \div den) + (n % den) \div (den \div 1000)
  IN  IF num >= 0 THEN Thousandths(num) ELSE 0 - Thousandths(0 - num)

UnroundedSum(elos, places, k, i) ==
  SumSeq([j \in 1..Len(elos) |->
            IF j = i THEN 0 ELSE UnroundedTerm(elos, places, k, i, j)])

\* C29: calculate_group_elo_with_draws rounds once per player: the change of
\* a player is the rounding of the sum over the opponents of the unrounded
\* k * (score - expected) / (N - 1), so it lies within one half of that sum
\* (here in thousandths and times N - 1, with the 2 thousandths per term the
\* sum may be off by).
C29_RoundsOncePerPlayer ==
  Returned =>
    \A i \in DOMAIN last.ret :
      LET n == Len(last.player_elos)
          sum == UnroundedSum(last.player_elos, last.player_positions, last.k_factor, i)
      IN  Abs(1000 * (n - 1) * Changes[i] - sum) <= 502 * (n - 1)

\* C31: a pair of tied players adds its draw adjustment to each of the two
\* once, as a pair of a winner and a loser does: when two players share
\* position 1 in a game of two, the change of each is round(k * (0.5 - E)),
\* E being the player's expected score against the other, and not twice it.
C31_DrawCountsOnce ==
  (/\ Returned
   /\ Len(last.player_elos) = 2
   /\ last.player_positions = <<1, 1>>)
  => /\ Changes[1] = calculate_elo_draw(last.player_elos[1], last.player_elos[2],
                                        last.k_factor)[1] - last.player_elos[1]
     /\ Changes[2] = calculate_elo_draw(last.player_elos[1], last.player_elos[2],
                                        last.k_factor)[2] - last.player_elos[2]

\* All a store holds of one channel: its k-factor, the ratings and gambling
\* flags of its members, its games and their player_games rows.
GroupState(d, channel_id) ==
  [channels |-> {[channel_id |-> ch.channel_id, k_factor |-> ch.k_factor] :
                   ch \in ChannelRows(d, channel_id)},
   channel_players |-> {cp \in d.channel_players : cp.channel_id = channel_id},
   games |-> ChannelGames(d, channel_id),
   player_games |-> {pg \in d.player_games :
                       \E g \in ChannelGames(d, channel_id) : g.id = pg.game_id}]

\* C32: create_game, undo_last_game, reset_channel, set_channel_k_factor and
\* toggle_player_gambling on a channel H leave the ratings, gambling flags,
\* k-factor, games and player_games rows of every other channel G as they
\* were, also those of players who are members of both: no call on H
\* returns a store that differs in G, and no step changes two channels, or
\* a channel other than the one it stores a game in.
C32_ChannelsAreIndependent ==
  /\ [](\A G \in TwoChannels : \A H \in TwoChannels \ {G} :
          LET Kept(after) == GroupState(after, G) = GroupState(DB, G)
          IN  /\ \A last_game \in LastGames(DB, H) :
                   Kept(undo_last_game(DB, H, last_game).db)
              /\ Kept(undo_last_game(DB, H, NoGame).db)
              /\ Kept(reset_channel(DB, H).db)
              /\ \A k \in KFactorArgs : Kept(set_channel_k_factor(DB, H, k).db)
              /\ \A u \in Users : Kept(toggle_player_gambling(DB, u, H).db))
  /\ [][\A G \in TwoChannels : \A H \in TwoChannels \ {G} :
          GroupState(DB, H)' # GroupState(DB, H)
            => /\ GroupState(DB, G)' = GroupState(DB, G)
               /\ \A g \in games' \ games : g.channel_id = H]_vars

\* Each of two channels holds a game of the same players, and one of them a
\* set gambling flag and a k-factor of its own.
C32_Witness ==
  /\ \E g \in games : g.channel_id = "c1"
  /\ \E g \in games : g.channel_id = "c2"
  /\ \E cp \in channel_players : cp.channel_id = "c1" /\ cp.gambling = 1
  /\ \E ch \in channels : ch.channel_id = "c1" /\ ch.k_factor = 16
  /\ \E ch \in channels : ch.channel_id = "c2" /\ ch.k_factor = 32
  /\ \E cp \in channel_players, other \in channel_players :
       /\ cp.user_id = other.user_id
       /\ cp.channel_id = "c1" /\ other.channel_id = "c2"
       /\ cp.rating # other.rating

\* The players get_channel_leaderboard lists when the limit is no less than
\* the number of members of the channel.
Listed(d, channel_id) ==
  UNION {{leaderboard[i].user_id : i \in DOMAIN leaderboard} :
           leaderboard \in get_channel_leaderboard(d, channel_id, Cardinality(Users))}

\* C33: get_channel_leaderboard(G, limit), limit being no less than the
\* number of members of G, lists every player with a channel_players row in
\* G whatever the player has done elsewhere: a member of G without a game
\* in G is still listed, with games_played 0, after games of that player are
\* stored in a channel H, and create_game on H never changes the leaderboard
\* of G.
C33_LeaderboardListsEveryMember ==
  \A G \in TwoChannels :
    /\ Listed(DB, G) = {cp.user_id : cp \in {x \in channel_players : x.channel_id = G}}
    /\ \A H \in TwoChannels \ {G} :
         \A r \in ChannelRankings, time \in Clock(DB) :
           get_channel_leaderboard(create_game(DB, H, r, TeamOf(H), time).db, G,
                                   Cardinality(Users))
             = get_channel_leaderboard(DB, G, Cardinality(Users))

\* C34: undo_last_game changes the rating of the players of the game it
\* undoes and of nobody else, and removes that game and its player_games
\* rows and nothing else: every gambling flag (a flag the game had consumed
\* stays clear), the k-factor, the ratings of the other players and all the
\* other games are what they were.
C34_UndoTouchesOnlyItsGame ==
  \A c \in Channels :
    \A last_game \in LastGames(DB, c) :
      LET result == undo_last_game(DB, c, last_game)
          after == result.db
          undone == {pg \in player_games : pg.game_id = last_game.id}
      IN  /\ ~result.raised
          /\ after.games = games \ {last_game}
          /\ after.player_games = player_games \ undone
          /\ after.channels = channels
          /\ after.players = players
          /\ Cardinality(after.channel_players) = Cardinality(channel_players)
          /\ \A cp \in channel_players :
               \E kept \in after.channel_players :
                 /\ kept.user_id = cp.user_id
                 /\ kept.channel_id = cp.channel_id
                 /\ kept.gambling = cp.gambling
                 /\ (\A pg \in undone : pg.user_id # cp.user_id)
                      => kept.rating = cp.rating

\* undo_last_game has returned and left the other game, in which a player
\* had gambled, in a channel whose k-factor had been set.
C34_Witness ==
  /\ last.op = "undo_last_game"
  /\ ~last.raised
  /\ \E pg \in player_games : pg.gambled = 1
  /\ \E cp \in channel_players : cp.user_id \in Gamblers /\ cp.gambling = 0
  /\ \E ch \in channels : ch.k_factor = 16

\* What a further undo_last_game does to two stores agrees: it raises in
\* both or undoes the same game in both.
SameUndo(d, e, channel_id) ==
  /\ LastGames(d, channel_id) = LastGames(e, channel_id)
  /\ undo_last_game(d, channel_id, NoGame).raised
       = undo_last_game(e, channel_id, NoGame).raised
  /\ \A last_game \in LastGames(e, channel_id) :
       LET x == undo_last_game(d, channel_id, last_game)
           y == undo_last_game(e, channel_id, last_game)
       IN  /\ x.raised = y.raised
           /\ x.ret = y.ret
           /\ x.db.games = y.db.games
           /\ x.db.player_games = y.db.player_games
           /\ \A u \in Users : RatingOf(x.db, u, channel_id) = RatingOf(y.db, u, channel_id)

\* C35: n games recorded in one channel one after the other, each in a later
\* second than every game before it, are removed by n calls of undo_last_game
\* in the reverse order, each call returning the timestamp of the game it
\* removed; after the n-th every rating is what it was before the first of
\* the games, and one more undo does what it would have done then.  Here for
\* n = 1 and n = 2, from every state.
C35_UndoUnwindsInReverse ==
  \A c \in Channels, r1 \in ChannelRankings, r2 \in ChannelRankings :
    LET t1 == Latest(DB) + 1
        t2 == t1 + 1
        first == create_game(DB, c, r1, TeamOf(c), t1)
        second == create_game(first.db, c, r2, TeamOf(c), t2)
        Unwound(d, e) ==
          /\ d.games = e.games
          /\ d.player_games = e.player_games
          /\ \A u \in Users : RatingOf(d, u, c) = RatingOf(e, u, c)
    IN  /\ LastGames(first.db, c) = {[id |-> first.ret, channel_id |-> c, timestamp |-> t1]}
        /\ LastGames(second.db, c) = {[id |-> second.ret, channel_id |-> c, timestamp |-> t2]}
        /\ \A g1 \in LastGames(first.db, c) :
             LET undone == undo_last_game(first.db, c, g1)
             IN  /\ ~undone.raised
                 /\ undone.ret = t1
                 /\ Unwound(undone.db, DB)
                 /\ SameUndo(undone.db, DB, c)
        /\ \A g2 \in LastGames(second.db, c) :
             LET undone2 == undo_last_game(second.db, c, g2)
             IN  /\ ~undone2.raised
                 /\ undone2.ret = t2
                 /\ Unwound(undone2.db, first.db)
                 /\ \A g1 \in LastGames(undone2.db, c) :
                      LET undone1 == undo_last_game(undone2.db, c, g1)
                      IN  /\ ~undone1.raised
                          /\ undone1.ret = t1
                          /\ Unwound(undone1.db, DB)
                          /\ SameUndo(undone1.db, DB, c)

\* Two games have been recorded in different seconds and undo_last_game has
\* returned twice: no game is left and every rating is 1000 again.
C35_Witness ==
  /\ last.op = "undo_last_game"
  /\ ~last.raised
  /\ games_seq = 2
  /\ games = {}
  /\ Cardinality(channel_players) = 3
  /\ \A cp \in channel_players : cp.rating = INITIAL_RATING

\* C36: process_game_rankings reports the same ratings before and after and
\* the same position for every player in both modes: from one store, be the
\* k-factor of the channel 32 or not and a gambling flag set or not, the
\* ratings after of is_simulation=True are those of is_simulation=False, and
\* the simulation changes no stored rating.
C36_SimulationReportsTheRecordedRatings ==
  \A c \in Channels, r \in Rankings, time \in Clock(DB) :
    LET simulated == process_game_rankings(DB, c, r, TRUE, time)
        recorded == process_game_rankings(DB, c, r, FALSE, time)
    IN  (Len(Flatten(r)) >= 2 /\ ~DuplicatePlayers(Flatten(r)))
        => /\ ~simulated.raised /\ ~recorded.raised
           /\ simulated.ret.before = recorded.ret.before
           /\ simulated.ret.positions = recorded.ret.positions
           /\ simulated.ret.after = recorded.ret.after
           /\ \A cp \in channel_players :
                \E kept \in simulated.db.channel_players :
                  /\ kept.user_id = cp.user_id
                  /\ kept.channel_id = cp.channel_id
                  /\ kept.rating = cp.rating

\* The player_games rows of a player in a channel in the order the games
\* were created.
RECURSIVE Chronological(_)
Chronological(rows) ==
  IF rows = {} THEN <<>>
  ELSE LET first == CHOOSE pg \in rows : \A other \in rows : pg.game_id <= other.game_id
       IN  <<first>> \o Chronological(rows \ {first})

\* The second a player_games row was recorded in, and the orders of a
\* player's rows in a channel that never put a later second before an
\* earlier one.
PlayedAt(d, pg) == (CHOOSE g \in d.games : g.id = pg.game_id).timestamp

ChronologicalOrders(d, user_id, channel_id) ==
  LET rows == RecordsOfUser(d, user_id, channel_id)
  IN  {s \in [1..Cardinality(rows) -> rows] :
         \A i, j \in DOMAIN s :
           i < j => s[i] # s[j] /\ PlayedAt(d, s[i]) <= PlayedAt(d, s[j])}

\* The length of the longest run of consecutive first places in a sequence
\* of player_games rows.
LongestRunIn(s) ==
  LET IsRun(i, n) == \A k \in i..(i + n - 1) : s[k].position = 1
      lengths == {n \in 0..Len(s) : \E i \in 1..(Len(s) - n + 1) : IsRun(i, n)}
  IN  CHOOSE n \in lengths : \A m \in lengths : m <= n

RunOf(d, user_id, channel_id) ==
  LongestRunIn(Chronological(RecordsOfUser(d, user_id, channel_id)))

LongestRun(d, channel_id) ==
  CHOOSE n \in {RunOf(d, u, channel_id) : u \in Users} :
    \A u \in Users : RunOf(d, u, channel_id) <= n

\* No two games of one player in the channel were recorded in the same second.
DistinctSeconds(d, channel_id) ==
  \A u \in Users :
    \A pg, other \in RecordsOfUser(d, u, channel_id) :
      pg # other => PlayedAt(d, pg) # PlayedAt(d, other)

\* C37: get_channel_statistics reports as longest_win_streak the greatest
\* length, over the players of the channel, of a run of consecutive first
\* places in the player's own games in chronological order, with a player
\* who has such a run, and reports none when that length is below 2.  The
\* chronological order is that of the seconds the games were recorded in:
\* when no two games of a player share a second it is the order of
\* creation, and for games of one second the entry is the longest run in
\* one of the orders of those games.
C37_LongestWinStreakIsTheLongestRun ==
  \A c \in Channels :
    \A stats \in get_channel_statistics(DB, c) :
      /\ \E run \in [Users -> 0..Cardinality(games)] :
           /\ \A u \in Users :
                \E s \in ChronologicalOrders(DB, u, c) : run[u] = LongestRunIn(s)
           /\ IF \A u \in Users : run[u] < 2
                THEN stats.longest_win_streak.user_id = NULL
                ELSE /\ stats.longest_win_streak.user_id \in Users
                     /\ stats.longest_win_streak.streak
                          = run[stats.longest_win_streak.user_id]
                     /\ \A u \in Users : run[u] <= stats.longest_win_streak.streak
      /\ DistinctSeconds(DB, c)
           => IF LongestRun(DB, c) < 2
                THEN stats.longest_win_streak.user_id = NULL
                ELSE /\ stats.longest_win_streak.streak = LongestRun(DB, c)
                     /\ stats.longest_win_streak.user_id \in Users
                     /\ RunOf(DB, stats.longest_win_streak.user_id, c)
                          = LongestRun(DB, c)

\* Three games of u1 in three seconds, a run of two first places and a game
\* lost: the streak of 2 is reported for u1.
C37_Witness ==
  /\ DistinctSeconds(DB, "c1")
  /\ Cardinality(RecordsOfUser(DB, "u1", "c1")) = 3
  /\ \E pg \in RecordsOfUser(DB, "u1", "c1") : pg.position # 1
  /\ \E stats \in get_channel_statistics(DB, "c1") :
       stats.longest_win_streak = [user_id |-> "u1", streak |-> 2]

\* The ratings a player's games in a channel left, in the order the games
\* were created, and the rise of such a history: from its minimum to its
\* maximum when the maximum is reached after the minimum, 0 when not.
RatingHistory(d, user_id, channel_id) ==
  LET rows == Chronological(RecordsOfUser(d, user_id, channel_id))
  IN  [i \in DOMAIN rows |-> rows[i].rating_after]

RiseOf(history) ==
  LET ratings == {history[i] : i \in DOMAIN history}
      lowest == CHOOSE r \in ratings : \A x \in ratings : r <= x
      highest == CHOOSE r \in ratings : \A x \in ratings : x <= r
  IN  IF history # <<>>
         /\ \E i, j \in DOMAIN history :
              i < j /\ history[i] = lowest /\ history[j] = highest
        THEN highest - lowest
        ELSE 0

\* C38: get_channel_statistics reports a biggest_comeback only for a player
\* whose rating rose by more than 100 from its minimum to a later maximum,
\* and the value reported is the largest such rise of any player; a player
\* whose maximum came before the minimum is not reported.
C38_ComebackIsARiseAboveTheThreshold ==
  \A c \in Channels :
    \A stats \in get_channel_statistics(DB, c) :
      stats.biggest_comeback.user_id # NULL
        => /\ stats.biggest_comeback.comeback
                = RiseOf(RatingHistory(DB, stats.biggest_comeback.user_id, c))
           /\ stats.biggest_comeback.comeback > 100
           /\ \A u \in Users :
                RiseOf(RatingHistory(DB, u, c)) <= stats.biggest_comeback.comeback

\* C39: migrate_to_version executes scripts in strictly ascending order of
\* version, only versions after the current one and up to the target, none
\* that the ledger already held, and none at all when the target is the
\* current version or precedes it; it raises without executing a script when
\* the target is not an available migration; and a script that fails is the
\* last one executed, its error raised.
C39_MigrationsRunForwardInOrder ==
  last.op = "migrate_to_version"
    => /\ \A i, j \in DOMAIN last.executed :
            i < j => VersionLess(last.executed[i], last.executed[j])
       /\ \A i \in DOMAIN last.executed :
            /\ VersionLess(last.current_version, last.executed[i])
            /\ ~VersionLess(last.target_version, last.executed[i])
            /\ last.executed[i] \notin last.applied_migrations
       /\ ~VersionLess(last.current_version, last.target_version)
            => last.executed = <<>>
       /\ (\A i \in DOMAIN last.available_migrations :
             last.available_migrations[i] # last.target_version)
            => last.raised /\ last.executed = <<>>
       /\ \A i \in DOMAIN last.executed :
            last.executed[i] = last.failing
              => last.raised /\ i = Len(last.executed)

====
